---------------------------- MODULE Spec2Model ----------------------------
(***************************************************************************)
(* A model of tarkov-map: the viewer's coordinate projection               *)
(* (src/bin/tarkov-map/coordinates.rs) and the asset build of fetch_maps   *)
(* (src/bin/fetch_maps.rs).                                                *)
(*                                                                         *)
(* Numbers.  The code computes the projection in f64 and casts to f32.     *)
(* The model computes it in exact rational arithmetic: a rational is a     *)
(* pair <<n, d>> in lowest terms with d > 0, and <<0, 0>> stands for a     *)
(* non-finite float (the result of a division by zero).  Rotations are     *)
(* restricted to the multiples of 90 degrees the data uses, where sine and *)
(* cosine are taken as exactly -1, 0 or 1; the rounding of                 *)
(* to_radians().sin_cos() is not modelled.                                 *)
(***************************************************************************)
EXTENDS Integers, Sequences, FiniteSets, TLC

VARIABLES
    \* ---- coordinates.rs: one call of game_to_display
    map,          \* the &Map argument (the fields the function reads)
    map_rect,     \* the egui::Rect argument: [min |-> <<x,y>>, max |-> <<x,y>>]
    game_pos,     \* the [f64; 2] argument
    display,      \* the Option<egui::Pos2> returned
    proj_pc,      \* "idle" | "call" | "done"
    \* ---- fetch_maps.rs: the asset build of one map
    args,            \* the arguments of process_svg_map / process_tile_map
    overflow_checks, \* the build profile: TRUE when arithmetic overflow panics
    raster,          \* the file assets/maps/<name>.png: None or Some(<<w, h>>)
    writes,          \* how many times the raster file has been written
    requests,        \* how many HTTP requests for the map's source were sent
    pc,              \* "idle" | "start" | "svg_sent" | "fetching" | "returned" | "panicked"
    locals,          \* zoom, tiles_per_axis, full_size once computed
    tasks,           \* join_set: how many tile tasks are in each state
    permits,         \* the permits the semaphore has left
    tiles,           \* tiles.len(): the results joined so far
    ret,             \* the Result returned
    raster0,         \* history: the raster file when the build started
    failed_responses, \* history: tile responses that were an error
    \* ---- fetch_maps.rs: one normalisation of a raw value
    raw,          \* the raw value: [fn |-> which normaliser, and its input]
    norm,         \* what the normaliser returned
    norm_pc,      \* "idle" | "call" | "done"
    \* ---- fetch_maps.rs: main, run once or twice in a row
    feed,            \* fetched_maps: the groups of maps.json, in source order
    map_names,       \* the HashMap of display names by normalized_name
    cli,             \* Args, with the build profile
    disk,            \* the raster file of each normalized_name
    bundle,          \* the file assets/maps.ron
    maps,            \* the Vec<Map> of main
    skipped,         \* the counter of main
    next_group,      \* the index in feed of the group the loop takes next
    main_pc,         \* "idle" | "start" | "loop" | "exit"
    exit,            \* how the process ended
    run,             \* 1 in the first run, 2 in the second
    first_run,       \* history: maps and starting disk of the run before
    disk0,           \* history: the raster files when the run started
    bundle0,         \* history: maps.ron when the run started
    source_requests, \* history: builds of this run that sent a request
    raster_writes,   \* history: builds of this run that wrote a raster
    bundle_writes,   \* history: completed writes of maps.ron in this run
    in_flight,       \* the builds that have sent requests and not returned
    \* ---- fetch_maps.rs: the join loop and the composition, tile by tile
    grid,         \* tiles_per_axis, tile_size and full_size of the build
    served,       \* what each tile request is answered with, by (x, y)
    pending,      \* the tiles whose task has not been joined
    joined,       \* tiles: the (x, y) of the tiles joined, in join order
    canvas_file,  \* the raster file: None or Some(pixels)
    compose_ret,  \* the Result returned
    compose_pc,   \* "idle" | "joining" | "returned"
    \* ---- updater.rs: the Updater of the viewer and its threads
    cmd_rx,             \* the commands sent and not yet received
    event_rx,           \* the events sent and not yet received
    available_version,  \* Updater::available_version
    update_in_progress, \* Updater::update_in_progress
    check_thread,       \* the thread of spawn_update_check
    installs,           \* the threads of spawn_update_install, in spawn order
    closed,             \* ViewportCommand::Close was sent
    clicks,             \* history: the commands sent so far
    upd_pc              \* "idle" | "run"

projVars == <<map, map_rect, game_pos, display, proj_pc>>

buildVars == <<args, overflow_checks, raster, writes, requests, pc, locals,
               tasks, permits, tiles, ret, raster0, failed_responses>>

normVars == <<raw, norm, norm_pc>>

mainVars == <<feed, map_names, cli, disk, bundle, maps, skipped, next_group,
              main_pc, exit, run, first_run, disk0, bundle0,
              source_requests, raster_writes, bundle_writes, in_flight>>

composeVars == <<grid, served, pending, joined, canvas_file, compose_ret,
                 compose_pc>>

updaterVars == <<cmd_rx, event_rx, available_version, update_in_progress,
                 check_thread, installs, closed, clicks, upd_pc>>

vars == <<map, map_rect, game_pos, display, proj_pc,
          args, overflow_checks, raster, writes, requests, pc, locals,
          tasks, permits, tiles, ret, raster0, failed_responses,
          raw, norm, norm_pc,
          feed, map_names, cli, disk, bundle, maps, skipped, next_group,
          main_pc, exit, run, first_run, disk0, bundle0, source_requests,
          raster_writes, bundle_writes, in_flight,
          grid, served, pending, joined, canvas_file, compose_ret, compose_pc,
          cmd_rx, event_rx, available_version, update_in_progress,
          check_thread, installs, closed, clicks, upd_pc>>

\* ------------------------------------------------------------------------
\* Option values
\* ------------------------------------------------------------------------
None == [tag |-> "None"]
Some(v) == [tag |-> "Some", val |-> v]
IsSome(o) == o.tag = "Some"
IsNone(o) == o.tag = "None"

\* ------------------------------------------------------------------------
\* Exact rationals standing for the floats of the projection
\* ------------------------------------------------------------------------
Abs(n) == IF n < 0 THEN -n ELSE n

RECURSIVE GCD(_, _)
GCD(a, b) == IF b = 0 THEN a ELSE GCD(b, a % b)

NonFinite == <<0, 0>>

\* n / d as the float division computes it: non-finite when d = 0.
Div(n, d) ==
    IF d = 0 THEN NonFinite
    ELSE LET g == GCD(Abs(n), Abs(d))
             s == IF d < 0 THEN -1 ELSE 1
         IN  <<(s * n) \div g, (s * d) \div g>>

IsFinite(q) == q[2] > 0

\* base + frac * extent, for integers base and extent and a rational frac.
Lerp(base, frac, extent) ==
    IF ~IsFinite(frac) THEN NonFinite
    ELSE Div(base * frac[2] + frac[1] * extent, frac[2])

QInt(n) == <<n, 1>>

\* ------------------------------------------------------------------------
\* coordinates.rs
\* ------------------------------------------------------------------------
Rotations == {0, 90, 180, 270}

Cos(angle_deg) == CASE angle_deg = 0 -> 1 [] angle_deg = 90 -> 0
                    [] angle_deg = 180 -> -1 [] angle_deg = 270 -> 0
Sin(angle_deg) == CASE angle_deg = 0 -> 0 [] angle_deg = 90 -> 1
                    [] angle_deg = 180 -> 0 [] angle_deg = 270 -> -1

rotate_point(x, y, angle_deg) ==
    IF angle_deg = 0 THEN <<x, y>>
    ELSE <<x * Cos(angle_deg) - y * Sin(angle_deg),
           x * Sin(angle_deg) + y * Cos(angle_deg)>>

SetMin(S) == CHOOSE m \in S : \A s \in S : m <= s
SetMax(S) == CHOOSE m \in S : \A s \in S : m >= s

\* The four corners of bounds, in the code's order.
BoundsCorners(bounds) ==
    << <<bounds[1][1], bounds[1][2]>>,
       <<bounds[1][1], bounds[2][2]>>,
       <<bounds[2][1], bounds[1][2]>>,
       <<bounds[2][1], bounds[2][2]>> >>

\* A mutation of RotatedExtent: the extent of the unrotated corners.
UnrotatedExtent(bounds, rotation) ==
    LET cs == BoundsCorners(bounds)
        xs == {cs[i][1] : i \in 1..4}
        ys == {cs[i][2] : i \in 1..4}
    IN  [min_x |-> SetMin(xs), max_x |-> SetMax(xs),
         min_y |-> SetMin(ys), max_y |-> SetMax(ys)]

\* The bounding box of the rotated corners (the two folds).
RotatedExtent(bounds, rotation) ==
    LET cs == BoundsCorners(bounds)
        rc == [i \in 1..4 |-> rotate_point(cs[i][1], cs[i][2], rotation)]
        xs == {rc[i][1] : i \in 1..4}
        ys == {rc[i][2] : i \in 1..4}
    IN  [min_x |-> SetMin(xs), max_x |-> SetMax(xs),
         min_y |-> SetMin(ys), max_y |-> SetMax(ys)]

RectWidth(rect) == rect.max[1] - rect.min[1]
RectHeight(rect) == rect.max[2] - rect.min[2]

\* A mutation of GeneralFrac: the Y fraction is not inverted.
GeneralFracNoInvert(ext, rotated) ==
    <<Div(rotated[1] - ext.min_x, ext.max_x - ext.min_x),
      Div(rotated[2] - ext.min_y, ext.max_y - ext.min_y)>>

\* A mutation of GeneralFrac: the X fraction is normalised by the height.
GeneralFracWrongAxis(ext, rotated) ==
    <<Div(rotated[1] - ext.min_x, ext.max_y - ext.min_y),
      Div(ext.max_y - rotated[2], ext.max_y - ext.min_y)>>

\* frac_x and frac_y of the general path (Y inverted).
GeneralFrac(ext, rotated) ==
    <<Div(rotated[1] - ext.min_x, ext.max_x - ext.min_x),
      Div(ext.max_y - rotated[2], ext.max_y - ext.min_y)>>

\* frac_x and frac_y of the 270-degree transform path.
AffineFrac(transform, image_size, rotated) ==
    LET scale_x == transform[1]
        margin_x == transform[2]
        scale_y == -transform[3]
        margin_y == transform[4]
        svg_x == scale_x * rotated[1] + margin_x
        svg_y == scale_y * rotated[2] + margin_y
    IN  <<Div(svg_x, image_size[1]), Div(svg_y, image_size[2])>>

ToDisplay(rect, frac) ==
    Some(<<Lerp(rect.min[1], frac[1], RectWidth(rect)),
           Lerp(rect.min[2], frac[2], RectHeight(rect))>>)

Rotation(m) ==
    IF IsSome(m.coordinate_rotation) THEN m.coordinate_rotation.val ELSE 0

\* A mutation of game_to_display: the transform path is taken at any rotation.
game_to_display_any_rotation(m, rect, pos) ==
    IF IsNone(m.bounds) THEN None
    ELSE LET rotation == Rotation(m)
             rotated == rotate_point(pos[1], pos[2], rotation)
         IN  IF IsSome(m.transform)
             THEN ToDisplay(rect,
                      AffineFrac(m.transform.val, m.image_size, rotated))
             ELSE ToDisplay(rect,
                      GeneralFrac(RotatedExtent(m.bounds.val, rotation), rotated))

\* A mutation of game_to_display: the transform path is tried before bounds.
game_to_display_transform_first(m, rect, pos) ==
    LET rotation == Rotation(m)
        rotated == rotate_point(pos[1], pos[2], rotation)
    IN  IF rotation = 270 /\ IsSome(m.transform)
        THEN ToDisplay(rect, AffineFrac(m.transform.val, m.image_size, rotated))
        ELSE IF IsNone(m.bounds) THEN None
        ELSE ToDisplay(rect,
                 GeneralFrac(RotatedExtent(m.bounds.val, rotation), rotated))

game_to_display(m, rect, pos) ==
    IF IsNone(m.bounds) THEN None
    ELSE LET rotation == Rotation(m)
             rotated == rotate_point(pos[1], pos[2], rotation)
         IN  IF rotation = 270 /\ IsSome(m.transform)
             THEN ToDisplay(rect,
                      AffineFrac(m.transform.val, m.image_size, rotated))
             ELSE ToDisplay(rect,
                      GeneralFrac(RotatedExtent(m.bounds.val, rotation), rotated))

\* ------------------------------------------------------------------------
\* Inputs of the projection
\* ------------------------------------------------------------------------
GridSteps == 1

BoundXs == {100 * i : i \in -GridSteps..GridSteps}
BoundYs == {50 * i : i \in -GridSteps..GridSteps}
\* Game points lie on a grid twice as fine, one bounds step wider.
PointXs == {50 * i : i \in -(GridSteps + 1)..(GridSteps + 1)}
PointYs == {25 * i : i \in -(GridSteps + 1)..(GridSteps + 1)}

BoundsValues ==
    {None} \cup
    {Some(<< <<a, b>>, <<c, d>> >>) : a \in BoundXs, b \in BoundYs,
                                      c \in BoundXs, d \in BoundYs}
RotationValues == {None} \cup {Some(r) : r \in Rotations}
TransformValues == {None, Some(<<1, 0, 1, 0>>), Some(<<2, 10, 3, 20>>)}
ImageSizes == {<<200, 100>>}
Rects == {[min |-> <<0, 0>>, max |-> <<200, 200>>],
          [min |-> <<10, 20>>, max |-> <<110, 70>>]}

Maps == [bounds : BoundsValues, coordinate_rotation : RotationValues,
         transform : TransformValues, image_size : ImageSizes]

ProjInit ==
    /\ map \in Maps
    /\ map_rect \in Rects
    /\ game_pos \in PointXs \X PointYs
    /\ display = None
    /\ proj_pc = "call"

ProjIdle ==
    /\ map = None
    /\ map_rect = None
    /\ game_pos = None
    /\ display = None
    /\ proj_pc = "idle"

\* One call of game_to_display on the drawn arguments.
Project ==
    /\ proj_pc = "call"
    /\ display' = game_to_display(map, map_rect, game_pos)
    /\ proj_pc' = "done"
    /\ UNCHANGED <<map, map_rect, game_pos>>
    /\ UNCHANGED <<buildVars, normVars, mainVars, composeVars,
                 updaterVars>>

\* ------------------------------------------------------------------------
\* fetch_maps.rs: 32-bit arithmetic
\* ------------------------------------------------------------------------
\* i32 and u32 keep their width.  An overflowing operation panics when the
\* build has overflow checks (a debug build) and wraps otherwise (a release
\* build).  A u32 is the pair <<high 16 bits, low 16 bits>>.
MaxI32 == 2147483647
MinI32 == -MaxI32 - 1

Panic == [panic |-> TRUE]
Val(v) == [panic |-> FALSE, val |-> v]

Max(a, b) == IF a >= b THEN a ELSE b

SubOverflows(a, b) ==
    \/ b < 0 /\ a > MaxI32 + b
    \/ b > 0 /\ a < MinI32 + b

\* a - b modulo 2^32, as an i32, when a - b is out of range.
WrappingSub(a, b) ==
    IF b < 0 THEN (a + MinI32) - (b - MinI32)
             ELSE (a - MinI32) - (b + MinI32)

I32Sub(a, b, checks) ==
    IF SubOverflows(a, b)
    THEN IF checks THEN Panic ELSE Val(WrappingSub(a, b))
    ELSE Val(a - b)

\* let zoom = (max_zoom - zoom_offset).max(min_zoom);
TargetZoom(min_zoom, max_zoom, zoom_offset, checks) ==
    LET d == I32Sub(max_zoom, zoom_offset, checks)
    IN  IF d.panic THEN Panic ELSE Val(Max(d.val, min_zoom))

\* 1u32 << zoom, as the exponent of the power of two it yields: the shift
\* amount is checked against the width, or masked to its low five bits.
TilesPerAxisExp(zoom, checks) ==
    IF zoom \in 0..31 THEN Val(zoom)
    ELSE IF checks THEN Panic ELSE Val(zoom % 32)

U32(n) == <<n \div 65536, n % 65536>>
\* tile_size as u32
AsU32(i) == <<(i \div 65536) % 65536, i % 65536>>
FitsInt(u) == u[1] < 32768
U32ToInt(u) == u[1] * 65536 + u[2]

\* u * 2^e in u32, for e in 0..31: the product modulo 2^32, and whether
\* it overflowed.
MulPow2(u, e) ==
    LET hi == u[1]
        lo == u[2]
    IN  IF e >= 16
        THEN [val |-> <<(lo % (2 ^ (32 - e))) * (2 ^ (e - 16)), 0>>,
              overflow |-> hi # 0 \/ lo \div (2 ^ (32 - e)) # 0]
        ELSE [val |-> <<((hi % (2 ^ (16 - e))) * (2 ^ e)
                            + (lo * (2 ^ e)) \div 65536) % 65536,
                        (lo * (2 ^ e)) % 65536>>,
              overflow |-> hi \div (2 ^ (16 - e)) # 0]

\* let full_size = tiles_per_axis * tile_size as u32;
FullSize(exp, tile_size, checks) ==
    LET m == MulPow2(AsU32(tile_size), exp)
    IN  IF m.overflow /\ checks THEN Panic ELSE Val(m.val)

\* Lines 542-545 of process_tile_map.
TileArithmetic(a, checks) ==
    LET z == TargetZoom(a.min_zoom, a.max_zoom, a.zoom_offset, checks)
    IN  IF z.panic THEN Panic
        ELSE LET e == TilesPerAxisExp(z.val, checks)
             IN  IF e.panic THEN Panic
                 ELSE LET f == FullSize(e.val, a.tile_size, checks)
                      IN  IF f.panic THEN Panic
                          ELSE Val([zoom |-> z.val, exp |-> e.val,
                                    full_size |-> f.val])

\* ------------------------------------------------------------------------
\* fetch_maps.rs: process_svg_map and process_tile_map
\* ------------------------------------------------------------------------
TILE_DOWNLOAD_CONCURRENCY == 32
SVG_RENDER_SCALE == 2

\* Sizes in image_size are in quarter pixels (one pixel is Quarter units),
\* so that a fractional SVG size and the truncation of `as u32` after the
\* scaling can be told apart.
Quarter == 2 * SVG_RENDER_SCALE

Ok(image_size) == [ok |-> TRUE, image_size |-> image_size]
Err(e) == [ok |-> FALSE, error |-> e]

\* A mutation of CacheHit: the short-circuit is never taken.
CacheHitNever(force, file) == FALSE

\* A mutation of CacheHit: the force flag is not looked at.
CacheHitIgnoresForce(force, file) == IsSome(file)

\* !force && image_disk_path.exists()
CacheHit(force, file) == ~force /\ IsSome(file)

\* A mutation of PermitAvailable: acquire never waits.
PermitAlways(available) == TRUE

\* semaphore.acquire_owned().await returns when a permit is left.
PermitAvailable(available) == available > 0

\* A mutation of TaskResult: the status of the response is not looked at.
TaskResultNoStatusCheck(outcome) ==
    IF outcome = "transport" THEN "done_transport" ELSE "done_ok"

\* What a tile task returns: Ok((x, y, bytes)) for a 2xx response received
\* in full, Err(HttpStatus) for another status, Err(Http) for a transport
\* error of send() or bytes().
TaskResult(outcome) ==
    CASE outcome = "ok" -> "done_ok"
      [] outcome = "status" -> "done_status"
      [] outcome = "transport" -> "done_transport"

NoTasks == [waiting |-> 0, in_flight |-> 0, done_ok |-> 0,
            done_status |-> 0, done_transport |-> 0]

\* The grid sides the model runs: a build with a larger grid is not started.
MaxGridZoom == 3
\* The tile responses of one build that may be an error.
MaxFailedTiles == 1

Pow2(e) == 2 ^ e
TilesPerAxis == Pow2(locals.val.exp)
TileCount == TilesPerAxis * TilesPerAxis

\* for x in 0..tiles_per_axis { for y in 0..tiles_per_axis { ... } }
TileCoords(n) == (0..(n - 1)) \X (0..(n - 1))

Return(r) ==
    /\ pc' = "returned"
    /\ ret' = Some(r)

\* process_tile_map up to the end of the spawn loop.
TileStart ==
    /\ pc = "start"
    /\ args.kind = "tile"
    /\ LET a == TileArithmetic(args, overflow_checks)
       IN  IF a.panic
           THEN /\ pc' = "panicked"
                /\ UNCHANGED <<locals, tasks, permits, ret>>
           ELSE /\ locals' = Some(a.val)
                /\ IF CacheHit(args.force, raster)
                   THEN /\ Return(Ok(<<Quarter * args.tile_size,
                                       Quarter * args.tile_size>>))
                        /\ UNCHANGED <<tasks, permits>>
                   ELSE /\ a.val.exp <= MaxGridZoom
                        /\ pc' = "fetching"
                        /\ permits' = TILE_DOWNLOAD_CONCURRENCY
                        /\ tasks' = [NoTasks EXCEPT !.waiting =
                               Cardinality(TileCoords(Pow2(a.val.exp)))]
                        /\ UNCHANGED ret
    /\ UNCHANGED <<args, overflow_checks, raster, writes, requests, tiles,
                   raster0, failed_responses>>
    /\ UNCHANGED <<projVars, normVars, mainVars, composeVars,
                 updaterVars>>

\* A tile task takes a permit and sends its request.
TaskAcquireAndSend ==
    /\ pc = "fetching"
    /\ tasks.waiting > 0
    /\ PermitAvailable(permits)
    /\ permits' = permits - 1
    /\ tasks' = [tasks EXCEPT !.waiting = @ - 1, !.in_flight = @ + 1]
    /\ requests' = requests + 1
    /\ UNCHANGED <<args, overflow_checks, raster, writes, pc, locals, tiles,
                   ret, raster0, failed_responses>>
    /\ UNCHANGED <<projVars, normVars, mainVars, composeVars,
                 updaterVars>>

\* A mutation of Release: the permit is kept.
ReleaseNothing(available) == available

\* _permit is dropped when the task returns, whatever it returns.
Release(available) == available + 1

\* The request of a tile task ends; the task returns and drops its permit.
TaskRespond ==
    /\ pc = "fetching"
    /\ tasks.in_flight > 0
    /\ \E outcome \in {"ok", "status", "transport"} :
          /\ outcome # "ok" => failed_responses < MaxFailedTiles
          /\ failed_responses' =
                 IF outcome = "ok" THEN failed_responses
                 ELSE failed_responses + 1
          /\ tasks' = [tasks EXCEPT !.in_flight = @ - 1,
                                    ![TaskResult(outcome)] = @ + 1]
    /\ permits' = Release(permits)
    /\ UNCHANGED <<args, overflow_checks, raster, writes, requests, pc,
                   locals, tiles, ret, raster0>>
    /\ UNCHANGED <<projVars, normVars, mainVars, composeVars,
                 updaterVars>>

\* join_next() yields a finished task whose result is Ok: tiles.push.
JoinOk ==
    /\ pc = "fetching"
    /\ tasks.done_ok > 0
    /\ tasks' = [tasks EXCEPT !.done_ok = @ - 1]
    /\ tiles' = tiles + 1
    /\ UNCHANGED <<args, overflow_checks, raster, writes, requests, pc,
                   locals, permits, ret, raster0, failed_responses>>
    /\ UNCHANGED <<projVars, normVars, mainVars, composeVars,
                 updaterVars>>

\* join_next() yields a finished task whose result is Err: `result??`
\* returns it, and dropping the JoinSet aborts the tasks that are left.
JoinErr ==
    /\ pc = "fetching"
    /\ \/ /\ tasks.done_status > 0
          /\ Return(Err("HttpStatus"))
       \/ /\ tasks.done_transport > 0
          /\ Return(Err("Http"))
    /\ tasks' = NoTasks
    /\ UNCHANGED <<args, overflow_checks, raster, writes, requests, locals,
                   permits, tiles, raster0, failed_responses>>
    /\ UNCHANGED <<projVars, normVars, mainVars, composeVars,
                 updaterVars>>

\* A mutation of JoinSetEmpty: the loop ends when no result is ready.
NoResultReady(t) == t.done_ok = 0 /\ t.done_status = 0 /\ t.done_transport = 0

\* join_set.join_next().await is None: no task is left in the set.
JoinSetEmpty(t) == t = NoTasks

\* join_next() yields None: the canvas is composed and saved.
ComposeAndSave ==
    /\ pc = "fetching"
    /\ JoinSetEmpty(tasks)
    /\ FitsInt(locals.val.full_size)
    /\ LET side == U32ToInt(locals.val.full_size)
       IN  raster' = Some(<<side, side>>)
    /\ writes' = writes + 1
    /\ Return(Ok(<<Quarter * args.tile_size, Quarter * args.tile_size>>))
    /\ UNCHANGED <<args, overflow_checks, requests, locals, tasks, permits,
                   tiles, raster0, failed_responses>>
    /\ UNCHANGED <<projVars, normVars, mainVars, composeVars,
                 updaterVars>>

\* A mutation of CachedSourceSize: the raster's own dimensions.
CachedSourceSizeUnscaled(img) == <<Quarter * img[1], Quarter * img[2]>>

\* [img.width() as f32 / SVG_RENDER_SCALE, img.height() as f32 / SVG_RENDER_SCALE]
CachedSourceSize(img) ==
    <<(Quarter * img[1]) \div SVG_RENDER_SCALE,
      (Quarter * img[2]) \div SVG_RENDER_SCALE>>

\* process_svg_map up to the first await of the request.
SvgStart ==
    /\ pc = "start"
    /\ args.kind = "svg"
    /\ IF CacheHit(args.force, raster)
       THEN /\ Return(Ok(CachedSourceSize(raster.val)))
            /\ UNCHANGED requests
       ELSE /\ pc' = "svg_sent"
            /\ requests' = requests + 1
            /\ UNCHANGED ret
    /\ UNCHANGED <<args, overflow_checks, raster, writes, locals, tasks,
                   permits, tiles, raster0, failed_responses>>
    /\ UNCHANGED <<projVars, normVars, mainVars, composeVars,
                 updaterVars>>

\* (source * SVG_RENDER_SCALE) as u32, for a source in quarter pixels.
RenderSize(source) == (source * SVG_RENDER_SCALE) \div Quarter

\* The SVG request ends: error, or parse, render and save.
SvgRespond ==
    /\ pc = "svg_sent"
    /\ \E outcome \in {"ok", "status", "transport", "malformed"} :
          CASE outcome = "transport" ->
                   /\ Return(Err("Http"))
                   /\ UNCHANGED <<raster, writes>>
            [] outcome = "status" ->
                   /\ Return(Err("HttpStatus"))
                   /\ UNCHANGED <<raster, writes>>
            [] outcome = "malformed" ->
                   /\ Return(Err("SvgParse"))
                   /\ UNCHANGED <<raster, writes>>
            [] outcome = "ok" ->
                   LET render_w == RenderSize(args.svg_size[1])
                       render_h == RenderSize(args.svg_size[2])
                   IN  IF render_w = 0 \/ render_h = 0
                       THEN /\ Return(Err("PixmapCreation"))
                            /\ UNCHANGED <<raster, writes>>
                       ELSE /\ raster' = Some(<<render_w, render_h>>)
                            /\ writes' = writes + 1
                            /\ Return(Ok(args.svg_size))
    /\ UNCHANGED <<args, overflow_checks, requests, locals, tasks, permits,
                   tiles, raster0, failed_responses>>
    /\ UNCHANGED <<projVars, normVars, mainVars, composeVars,
                 updaterVars>>

\* ------------------------------------------------------------------------
\* fetch_maps.rs: process_tile_map from the join loop on, tile by tile
\* ------------------------------------------------------------------------
\* The builds above count the tiles; here each tile has its coordinates and
\* its bytes, the grid is small, and one canvas pixel is one pixel.  A pixel
\* holds the coordinates of the tile it was copied from, or Blank.

\* The response to a tile request: an error status, or a body that is the
\* bytes of no image or of an image side x side pixels.
Refused == [kind |-> "status", side |-> 0]
Malformed == [kind |-> "malformed", side |-> 0]
Image(side) == [kind |-> "image", side |-> side]

\* image::load_from_memory(&bytes) is Ok
Decodes(body) == body.kind = "image"

\* A pixel of ImageBuffer::new: transparent black.
Blank == <<-1, -1>>

\* ImageBuffer::new(full_size, full_size)
NewCanvas(full_size) ==
    [p \in (0..(full_size - 1)) \X (0..(full_size - 1)) |-> Blank]

\* The body of `for (x, y, bytes) in tiles`: the tile's pixels are copied to
\* offset (x * tile_size, y * tile_size), those outside the canvas dropped;
\* bytes that do not decode are passed over.
Blit(canvas, c, body, tile_size) ==
    IF ~Decodes(body) THEN canvas
    ELSE LET offset_x == c[1] * tile_size
             offset_y == c[2] * tile_size
         IN  [p \in DOMAIN canvas |->
                 IF /\ p[1] \in offset_x..(offset_x + body.side - 1)
                    /\ p[2] \in offset_y..(offset_y + body.side - 1)
                 THEN c
                 ELSE canvas[p]]

\* The loop over tiles, in the order they were joined.
RECURSIVE ComposeTiles(_, _, _, _)
ComposeTiles(canvas, list, bodies, tile_size) ==
    IF list = <<>> THEN canvas
    ELSE ComposeTiles(Blit(canvas, Head(list), bodies[Head(list)], tile_size),
                      Tail(list), bodies, tile_size)

\* The widest a served image is beyond tile_size.
MaxOversize == 1

\* tiles_per_axis and tile_size of the builds run tile by tile.
ComposeGrids == {1, 2}
ComposeTileSizes == {2}

Bodies(tile_size) ==
    {Refused, Malformed} \cup
    {Image(s) : s \in (tile_size - 1)..(tile_size + MaxOversize)}

ComposeInit ==
    /\ \E n \in ComposeGrids, ts \in ComposeTileSizes :
          /\ grid = [tiles_per_axis |-> n, tile_size |-> ts,
                     full_size |-> n * ts]
          /\ served \in [TileCoords(n) -> Bodies(ts)]
          /\ pending = TileCoords(n)
    /\ joined = <<>>
    /\ canvas_file = None
    /\ compose_ret = None
    /\ compose_pc = "joining"

ComposeIdle ==
    /\ grid = None
    /\ served = <<>>
    /\ pending = {}
    /\ joined = <<>>
    /\ canvas_file = None
    /\ compose_ret = None
    /\ compose_pc = "idle"

\* join_next() yields the task of tile c, which got its body: tiles.push.
JoinTile ==
    /\ compose_pc = "joining"
    /\ \E c \in pending :
          /\ served[c].kind # "status"
          /\ pending' = pending \ {c}
          /\ joined' = Append(joined, c)
    /\ UNCHANGED <<grid, served, canvas_file, compose_ret, compose_pc>>
    /\ UNCHANGED <<projVars, buildVars, normVars, mainVars, updaterVars>>

\* join_next() yields the task of a tile that was refused: `result??`
\* returns the error and the JoinSet is dropped.
JoinRefused ==
    /\ compose_pc = "joining"
    /\ \E c \in pending : served[c].kind = "status"
    /\ pending' = {}
    /\ compose_ret' = Some(Err("HttpStatus"))
    /\ compose_pc' = "returned"
    /\ UNCHANGED <<grid, served, joined, canvas_file>>
    /\ UNCHANGED <<projVars, buildVars, normVars, mainVars, updaterVars>>

\* join_next() yields None: the canvas is made, composed and saved.
ComposeCanvas ==
    /\ compose_pc = "joining"
    /\ pending = {}
    /\ canvas_file' = Some(ComposeTiles(NewCanvas(grid.full_size), joined,
                                        served, grid.tile_size))
    /\ compose_ret' = Some(Ok(<<Quarter * grid.tile_size,
                                Quarter * grid.tile_size>>))
    /\ compose_pc' = "returned"
    /\ UNCHANGED <<grid, served, pending, joined>>
    /\ UNCHANGED <<projVars, buildVars, normVars, mainVars, updaterVars>>

\* ------------------------------------------------------------------------
\* updater.rs: the Updater, its two channels and its threads
\* ------------------------------------------------------------------------
\* An event carries the thread that sent it: 0 for the thread of
\* spawn_update_check, i for the i-th thread of spawn_update_install.
Event(kind, from) == [kind |-> kind, from |-> from]

\* The events that end an install.
TerminalKinds == {"UpdateInstalled", "UpToDate", "UpdateFailed"}

\* The fields of the Updater that poll reads and writes, with the threads.
UpdaterState(in_progress, available, threads, is_closed) ==
    [in_progress |-> in_progress, available |-> available,
     threads |-> threads, closed |-> is_closed]

\* One arm of the match in poll_events.
PollEvent(st, event) ==
    CASE event.kind = "UpdateAvailable" -> [st EXCEPT !.available = Some("v")]
      [] event.kind \in TerminalKinds -> [st EXCEPT !.in_progress = FALSE]
      [] event.kind = "CheckFailed" -> st

\* while let Ok(event) = self.event_rx.try_recv() { match event { .. } }
RECURSIVE PollEvents(_, _)
PollEvents(st, events) ==
    IF events = <<>> THEN st
    ELSE PollEvents(PollEvent(st, Head(events)), Tail(events))

\* A mutation of InstallRefused: the flag is not looked at.
InstallNeverRefused(in_progress) == FALSE

\* if self.update_in_progress { continue; }
InstallRefused(in_progress) == in_progress

\* One arm of the match in poll_commands; restart_ok is whether
\* restart_self() returns Ok.
PollCommand(st, cmd, restart_ok) ==
    CASE cmd = "UpdateNow" ->
             IF InstallRefused(st.in_progress) THEN st
             ELSE [st EXCEPT !.in_progress = TRUE,
                             !.threads = Append(@, "installing")]
      [] cmd = "Restart" ->
             IF restart_ok THEN [st EXCEPT !.closed = TRUE] ELSE st

\* while let Ok(cmd) = self.cmd_rx.try_recv() { match cmd { .. } }
RECURSIVE PollCommands(_, _, _)
PollCommands(st, cmds, restart_ok) ==
    IF cmds = <<>> THEN st
    ELSE PollCommands(PollCommand(st, Head(cmds), restart_ok), Tail(cmds),
                      restart_ok)

\* The commands sent in one run of the viewer.
MaxClicks == 3

\* Updater::new: the channels are empty and the check thread is spawned.
UpdaterInit ==
    /\ cmd_rx = <<>>
    /\ event_rx = <<>>
    /\ available_version = None
    /\ update_in_progress = FALSE
    /\ check_thread = "checking"
    /\ installs = <<>>
    /\ closed = FALSE
    /\ clicks = 0
    /\ upd_pc = "run"

UpdaterIdle ==
    /\ cmd_rx = <<>>
    /\ event_rx = <<>>
    /\ available_version = None
    /\ update_in_progress = FALSE
    /\ check_thread = "none"
    /\ installs = <<>>
    /\ closed = FALSE
    /\ clicks = 0
    /\ upd_pc = "idle"

\* The thread of spawn_update_check sends its event, if it has one: no
\* event when no release has an asset for the target.
CheckSend ==
    /\ upd_pc = "run"
    /\ check_thread = "checking"
    /\ \E outcome \in {"UpdateAvailable", "CheckFailed", "none"} :
          event_rx' = IF outcome = "none" THEN event_rx
                      ELSE Append(event_rx, Event(outcome, 0))
    /\ check_thread' = "notifying"
    /\ UNCHANGED <<cmd_rx, available_version, update_in_progress, installs,
                   closed, clicks, upd_pc>>
    /\ UNCHANGED <<projVars, buildVars, normVars, mainVars, composeVars>>

\* ctx.request_repaint() and the end of the check thread.
CheckExit ==
    /\ upd_pc = "run"
    /\ check_thread = "notifying"
    /\ check_thread' = "done"
    /\ UNCHANGED <<cmd_rx, event_rx, available_version, update_in_progress,
                   installs, closed, clicks, upd_pc>>
    /\ UNCHANGED <<projVars, buildVars, normVars, mainVars, composeVars>>

\* An install thread is through with updater.update() (or with build())
\* and sends the one event of the arm it took.
InstallSend ==
    /\ upd_pc = "run"
    /\ \E i \in 1..Len(installs) :
          /\ installs[i] = "installing"
          /\ \E kind \in TerminalKinds :
                event_rx' = Append(event_rx, Event(kind, i))
          /\ installs' = [installs EXCEPT ![i] = "notifying"]
    /\ UNCHANGED <<cmd_rx, available_version, update_in_progress,
                   check_thread, closed, clicks, upd_pc>>
    /\ UNCHANGED <<projVars, buildVars, normVars, mainVars, composeVars>>

\* ctx.request_repaint() and the end of an install thread.
InstallExit ==
    /\ upd_pc = "run"
    /\ \E i \in 1..Len(installs) :
          /\ installs[i] = "notifying"
          /\ installs' = [installs EXCEPT ![i] = "done"]
    /\ UNCHANGED <<cmd_rx, event_rx, available_version, update_in_progress,
                   check_thread, closed, clicks, upd_pc>>
    /\ UNCHANGED <<projVars, buildVars, normVars, mainVars, composeVars>>

\* The action button of a toast is clicked: its command is sent.  Which
\* toasts are on screen is decided by egui_toast, outside this repository;
\* the commands are taken as they come.
Click ==
    /\ upd_pc = "run"
    /\ ~closed
    /\ clicks < MaxClicks
    /\ \E cmd \in {"UpdateNow", "Restart"} : cmd_rx' = Append(cmd_rx, cmd)
    /\ clicks' = clicks + 1
    /\ UNCHANGED <<event_rx, available_version, update_in_progress,
                   check_thread, installs, closed, upd_pc>>
    /\ UNCHANGED <<projVars, buildVars, normVars, mainVars, composeVars>>

\* Updater::poll, called once a frame until the viewport is closed:
\* poll_events, then poll_commands.
Poll ==
    /\ upd_pc = "run"
    /\ ~closed
    /\ \E restart_ok \in BOOLEAN :
          LET st == PollCommands(
                        PollEvents(UpdaterState(update_in_progress,
                                                available_version, installs,
                                                closed),
                                   event_rx),
                        cmd_rx, restart_ok)
          IN  /\ update_in_progress' = st.in_progress
              /\ available_version' = st.available
              /\ installs' = st.threads
              /\ closed' = st.closed
    /\ event_rx' = <<>>
    /\ cmd_rx' = <<>>
    /\ UNCHANGED <<check_thread, clicks, upd_pc>>
    /\ UNCHANGED <<projVars, buildVars, normVars, mainVars, composeVars>>

\* ------------------------------------------------------------------------
\* fetch_maps.rs: the raw values of maps.json (serde_json::Value)
\* ------------------------------------------------------------------------
\* A number carries the text of its JSON token, a string its characters.
JNull == [t |-> "null"]
JBool(b) == [t |-> "bool", b |-> b]
JNumber(text) == [t |-> "number", text |-> text]
JString(s) == [t |-> "string", s |-> s]
JArray(a) == [t |-> "array", a |-> a]

\* An f64 as a decimal: n / 10^k with no trailing zero digit, or NaN.
\* -0.0 and 0.0 are one value here, as they are under ==.
F64(n, k) == [nan |-> FALSE, n |-> n, k |-> k]
NaN == [nan |-> TRUE, n |-> 0, k |-> 0]

RECURSIVE Decimal(_, _)
Decimal(n, k) ==
    IF k > 0 /\ n % 10 = 0 THEN Decimal(n \div 10, k - 1) ELSE F64(n, k)

Digits == {"0", "5", "9"}
DigitValue(c) == CASE c = "0" -> 0 [] c = "5" -> 5 [] c = "9" -> 9

AllDigits(s) == \A i \in 1..Len(s) : s[i] \in Digits

RECURSIVE DigitsValue(_)
DigitsValue(s) ==
    IF s = <<>> THEN 0
    ELSE 10 * DigitsValue(SubSeq(s, 1, Len(s) - 1)) + DigitValue(s[Len(s)])

\* The position of the first "." of s, or Len(s) + 1.
RECURSIVE DotAt(_, _)
DotAt(s, i) ==
    IF i > Len(s) \/ s[i] = "." THEN i ELSE DotAt(s, i + 1)

IntPart(s) == SubSeq(s, 1, DotAt(s, 1) - 1)
FracPart(s) == SubSeq(s, DotAt(s, 1) + 1, Len(s))

\* The grammar of a JSON number without exponent:
\* -? (0 | [1-9][0-9]*) (. [0-9]+)?
IsJsonNumber(text) ==
    LET body == IF text # <<>> /\ text[1] = "-" THEN Tail(text) ELSE text
        int == IntPart(body)
        frac == FracPart(body)
    IN  /\ int # <<>>
        /\ AllDigits(int)
        /\ Len(int) > 1 => int[1] # "0"
        /\ AllDigits(frac)
        /\ DotAt(body, 1) <= Len(body) => frac # <<>>

\* The value of an unsigned decimal: digits, "." and digits.
UnsignedValue(body) ==
    Decimal(DigitsValue(IntPart(body) \o FracPart(body)), Len(FracPart(body)))

Negate(v) == IF v.nan THEN v ELSE [v EXCEPT !.n = -@]

\* serde_json::Number::as_f64 of a number token
as_f64(text) ==
    IF text[1] = "-" THEN Negate(UnsignedValue(Tail(text)))
    ELSE UnsignedValue(text)

\* str::parse::<f64>: an optional sign, then "nan" (also "inf" and
\* "infinity", which the characters of the model cannot spell) or a decimal
\* with at least one digit, where the integer part or the fraction but not
\* both may be empty; no surrounding white space.  None when it fails.
ParseF64(s) ==
    LET body == IF s # <<>> /\ s[1] = "-" THEN Tail(s) ELSE s
        neg == s # <<>> /\ s[1] = "-"
        int == IntPart(body)
        frac == FracPart(body)
    IN  IF body = <<"n", "a", "n">> THEN Some(NaN)
        ELSE IF /\ AllDigits(int)
                /\ AllDigits(frac)
                /\ int \o frac # <<>>
        THEN Some(IF neg THEN Negate(UnsignedValue(body))
                         ELSE UnsignedValue(body))
        ELSE None

\* ------------------------------------------------------------------------
\* fetch_maps.rs: normalisers of the raw descriptor
\* ------------------------------------------------------------------------
\* Ok(v) of a deserializer.
Parsed(v) == [ok |-> TRUE, val |-> v]

\* A key that the JSON object does not have.
Absent == [t |-> "absent"]

\* A mutation of deserialize_rotation: a string is never a rotation.
deserialize_rotation_numbers_only(value) ==
    CASE value.t = "null" -> Parsed(None)
      [] value.t = "number" -> Parsed(Some(as_f64(value.text)))
      [] OTHER -> Err("Json")

\* deserialize_rotation on the value of the key
deserialize_rotation(value) ==
    CASE value.t = "null" -> Parsed(None)
      [] value.t = "number" -> Parsed(Some(as_f64(value.text)))
      [] value.t = "string" ->
             IF IsSome(ParseF64(value.s)) THEN Parsed(ParseF64(value.s))
             ELSE Err("Json")
      [] OTHER -> Err("Json")

\* FetchedLabel::rotation: #[serde(default, deserialize_with = ...)]
LabelRotation(field) ==
    IF field.t = "absent" THEN Parsed(None) ELSE deserialize_rotation(field)

\* FetchedMap::coordinate_rotation: #[serde(default)] Option<f64>, read by
\* serde's own Option<f64>, which takes null and numbers only.
MapCoordinateRotation(field) ==
    CASE field.t = "absent" -> Parsed(None)
      [] field.t = "null" -> Parsed(None)
      [] field.t = "number" -> Parsed(Some(as_f64(field.text)))
      [] OTHER -> Err("Json")

\* A mutation of SpawnKept: the sides are not looked at.
SpawnKeptAnySide(s) == \E i \in 1..Len(s.categories) : s.categories[i] = "player"

\* The filter closure of fetch_map_spawns.
SpawnKept(s) ==
    /\ \E i \in 1..Len(s.sides) : s.sides[i] = "pmc" \/ s.sides[i] = "all"
    /\ \E i \in 1..Len(s.categories) : s.categories[i] = "player"

\* The Spawn built from a kept entry of the response.
ToSpawn(s) == [position |-> s.position, sides |-> s.sides,
               categories |-> s.categories]

RECURSIVE MapSpawns(_)
MapSpawns(spawns) ==
    IF spawns = <<>> THEN <<>>
    ELSE IF SpawnKept(Head(spawns))
    THEN <<ToSpawn(Head(spawns))>> \o MapSpawns(Tail(spawns))
    ELSE MapSpawns(Tail(spawns))

\* v.as_f64() of a serde_json::Value
ValueAsF64(v) == IF v.t = "number" THEN Some(as_f64(v.text)) ELSE None

\* A mutation of Coordinate: a missing coordinate repeats the first one.
CoordinateRepeatsFirst(arr, idx) ==
    IF idx <= Len(arr) /\ IsSome(ValueAsF64(arr[idx]))
    THEN ValueAsF64(arr[idx]).val
    ELSE IF arr # <<>> /\ IsSome(ValueAsF64(arr[1]))
    THEN ValueAsF64(arr[1]).val
    ELSE F64(0, 0)

\* arr.get(idx).and_then(|v| v.as_f64()).unwrap_or(0.0), idx from 1
Coordinate(arr, idx) ==
    IF idx <= Len(arr) /\ IsSome(ValueAsF64(arr[idx]))
    THEN ValueAsF64(arr[idx]).val
    ELSE F64(0, 0)

\* The closure parse_point of FetchedExtentBound::from, idx from 1
parse_point(values, idx) ==
    IF idx <= Len(values) /\ values[idx].t = "array"
    THEN <<Coordinate(values[idx].a, 1), Coordinate(values[idx].a, 2)>>
    ELSE <<F64(0, 0), F64(0, 0)>>

\* FetchedExtentBound::from(values)
ExtentBoundFrom(values) ==
    [point1 |-> parse_point(values, 1),
     point2 |-> parse_point(values, 2),
     name |-> IF 3 <= Len(values) /\ values[3].t = "string"
              THEN values[3].s ELSE <<>>]

\* ------------------------------------------------------------------------
\* Inputs of the normalisers
\* ------------------------------------------------------------------------
\* The longest string, spawn list and bound-area array drawn.
MaxStrLen == 3
MaxSpawns == 3
MaxElems == 3

Chars == {"-", "0", "5", "9", ".", "x", " ", "n", "a"}
Strings == UNION {[1..n -> Chars] : n \in 0..MaxStrLen}
NumberTexts == {s \in Strings : IsJsonNumber(s)}

RotationFields ==
    {Absent, JNull, JBool(TRUE), JArray(<<>>)}
        \cup {JNumber(s) : s \in NumberTexts}
        \cup {JString(s) : s \in Strings}

SidesValues == {<<>>, <<"pmc">>, <<"all">>, <<"scav">>, <<"scav", "pmc">>,
                <<"scav", "all">>}
CategoriesValues == {<<>>, <<"player">>, <<"bot">>, <<"bot", "player">>}

\* The spawns of one map in the response, from the sides and categories
\* of each entry; the position of an entry is its index, so that entries
\* can be told apart.
SpawnList(k) ==
    [i \in 1..Len(k) |-> [position |-> i, sides |-> k[i][1],
                          categories |-> k[i][2]]]

PointValues ==
    {<<>>, <<JNumber(<<"5">>)>>, <<JNumber(<<"5">>), JNumber(<<"-", "9">>)>>,
     <<JString(<<"5">>), JNumber(<<"9">>)>>, <<JNumber(<<"5">>), JNull>>,
     <<JNumber(<<"5">>), JNumber(<<"9">>), JNumber(<<"0">>)>>}
BoundElements ==
    {JNull, JNumber(<<"5">>), JString(<<"a">>), JString(<<>>)}
        \cup {JArray(p) : p \in PointValues}

NormInit ==
    /\ \/ \E f \in RotationFields :
             \/ raw = [fn |-> "label_rotation", val |-> f]
             \/ raw = [fn |-> "coordinate_rotation", val |-> f]
       \/ \E n \in 0..MaxSpawns :
             \E k \in [1..n -> SidesValues \X CategoriesValues] :
                raw = [fn |-> "spawns", spawns |-> SpawnList(k)]
       \/ \E n \in 0..MaxElems :
             \E a \in [1..n -> BoundElements] :
                raw = [fn |-> "extent_bound", values |-> a]
    /\ norm = None
    /\ norm_pc = "call"

NormIdle ==
    /\ raw = None
    /\ norm = None
    /\ norm_pc = "idle"

\* serde reads the rotation key of a label.
DeserializeLabelRotation ==
    /\ norm_pc = "call"
    /\ raw.fn = "label_rotation"
    /\ norm' = LabelRotation(raw.val)
    /\ norm_pc' = "done"
    /\ UNCHANGED <<raw, projVars, buildVars, mainVars, composeVars,
                 updaterVars>>

\* serde reads the coordinateRotation key of a map variant.
DeserializeCoordinateRotation ==
    /\ norm_pc = "call"
    /\ raw.fn = "coordinate_rotation"
    /\ norm' = MapCoordinateRotation(raw.val)
    /\ norm_pc' = "done"
    /\ UNCHANGED <<raw, projVars, buildVars, mainVars, composeVars,
                 updaterVars>>

\* fetch_map_spawns on the spawns of one map of the response.
FetchMapSpawns ==
    /\ norm_pc = "call"
    /\ raw.fn = "spawns"
    /\ norm' = MapSpawns(raw.spawns)
    /\ norm_pc' = "done"
    /\ UNCHANGED <<raw, projVars, buildVars, mainVars, composeVars,
                 updaterVars>>

\* serde reads one bound-area array through FetchedExtentBound::from.
ConvertExtentBound ==
    /\ norm_pc = "call"
    /\ raw.fn = "extent_bound"
    /\ norm' = ExtentBoundFrom(raw.values)
    /\ norm_pc' = "done"
    /\ UNCHANGED <<raw, projVars, buildVars, mainVars, composeVars,
                 updaterVars>>

\* ------------------------------------------------------------------------
\* fetch_maps.rs: a whole build as one step, for convert_group and main
\* ------------------------------------------------------------------------
\* What a call of process_svg_map or process_tile_map comes to: the value
\* returned, the raster file it leaves, whether it sent a request for the
\* source and whether it wrote the file.  `outcome` is what the network
\* does to the requests of the build: "ok", "status" (a non-2xx answer),
\* "transport" (send or body fails) or "malformed" (bytes that do not parse).
BuildResult(r, file, requested, wrote) ==
    [panic |-> FALSE, ret |-> r, file |-> file, requested |-> requested,
     wrote |-> wrote]

\* The arithmetic of the build panicked: nothing returned, nothing done.
BuildPanic(file) ==
    [panic |-> TRUE, ret |-> Err("panic"), file |-> file,
     requested |-> FALSE, wrote |-> FALSE]

process_svg_map(force, file, svg_size, outcome) ==
    IF CacheHit(force, file)
    THEN BuildResult(Ok(CachedSourceSize(file.val)), file, FALSE, FALSE)
    ELSE CASE outcome = "transport" -> BuildResult(Err("Http"), file, TRUE, FALSE)
           [] outcome = "status" ->
                  BuildResult(Err("HttpStatus"), file, TRUE, FALSE)
           [] outcome = "malformed" ->
                  BuildResult(Err("SvgParse"), file, TRUE, FALSE)
           [] outcome = "ok" ->
                  LET render_w == RenderSize(svg_size[1])
                      render_h == RenderSize(svg_size[2])
                  IN  IF render_w = 0 \/ render_h = 0
                      THEN BuildResult(Err("PixmapCreation"), file, TRUE, FALSE)
                      ELSE BuildResult(Ok(svg_size),
                                       Some(<<render_w, render_h>>), TRUE, TRUE)

\* A tile whose bytes do not decode is left out of the canvas and the
\* build goes on, so "malformed" ends as "ok" does.  a is the record of
\* tile_size, min_zoom, max_zoom and zoom_offset.
process_tile_map(force, file, a, checks, outcome) ==
    LET ar == TileArithmetic(a, checks)
        source_size == <<Quarter * a.tile_size, Quarter * a.tile_size>>
    IN  IF ar.panic THEN BuildPanic(file)
        ELSE IF CacheHit(force, file)
        THEN BuildResult(Ok(source_size), file, FALSE, FALSE)
        ELSE CASE outcome = "transport" ->
                      BuildResult(Err("Http"), file, TRUE, FALSE)
               [] outcome = "status" ->
                      BuildResult(Err("HttpStatus"), file, TRUE, FALSE)
               [] OTHER ->
                      LET side == U32ToInt(ar.val.full_size)
                      IN  BuildResult(Ok(source_size), Some(<<side, side>>),
                                      TRUE, TRUE)

\* ------------------------------------------------------------------------
\* fetch_maps.rs: convert_group
\* ------------------------------------------------------------------------
\* A mutation of FindInteractive: the first variant, whatever its projection.
FindFirstVariant(variants) == IF variants = <<>> THEN 0 ELSE 1

\* maps.into_iter().find(|m| m.projection == "interactive"): the index of
\* the variant found, 0 for None.
FindInteractive(variants) ==
    IF \E i \in 1..Len(variants) : variants[i].projection = "interactive"
    THEN CHOOSE i \in 1..Len(variants) :
             /\ variants[i].projection = "interactive"
             /\ \A j \in 1..(i - 1) : variants[j].projection # "interactive"
    ELSE 0

\* A mutation of RequireZoom: an absent zoom is taken as 0.
ZoomOrZero(zoom, error) == IF IsNone(zoom) THEN Parsed(0) ELSE Parsed(zoom.val)

\* interactive.min_zoom.ok_or_else(|| FetchError::MissingMinZoom { .. })
\* and the same for max_zoom
RequireZoom(zoom, error) == IF IsNone(zoom) THEN Err(error) ELSE Parsed(zoom.val)

\* A mutation of LogicalSize: the bounds are not looked at.
LogicalSizeOfImage(bounds, image_size) == image_size

\* let logical_size = interactive.bounds.map(..).unwrap_or(result.image_size)
LogicalSize(bounds, image_size) ==
    IF IsSome(bounds)
    THEN <<Quarter * Abs(bounds.val[1][1] - bounds.val[2][1]),
           Quarter * Abs(bounds.val[2][2] - bounds.val[1][2])>>
    ELSE image_size

\* What convert_group returns.
Skipped == [kind |-> "skip"]
Failed(e) == [kind |-> "err", error |-> e]
Converted(m) == [kind |-> "map", map |-> m]
Panicked == [kind |-> "panic"]

\* The value of convert_group with the build it made, if any.
GroupResult(value, build) == [value |-> value, build |-> build]
NoBuild(file) == BuildResult(Err("none"), file, FALSE, FALSE)

\* A build with the kind of source its requests are for.
FromSource(kind, build) ==
    [panic |-> build.panic, ret |-> build.ret, file |-> build.file,
     requested |-> build.requested, wrote |-> build.wrote, source |-> kind]

\* A mutation of GroupBuild: the tile template is matched before the SVG.
GroupBuildTileFirst(interactive, file, flags, outcome) ==
    IF IsSome(interactive.tile_path)
    THEN LET min_zoom == RequireZoom(interactive.min_zoom, "MissingMinZoom")
             max_zoom == RequireZoom(interactive.max_zoom, "MissingMaxZoom")
             tile_size == IF IsSome(interactive.tile_size)
                          THEN interactive.tile_size.val ELSE 256
         IN  IF ~min_zoom.ok THEN min_zoom
             ELSE IF ~max_zoom.ok THEN max_zoom
             ELSE Parsed(FromSource("tiles",
                      process_tile_map(flags.force, file,
                             [tile_size |-> tile_size,
                              min_zoom |-> min_zoom.val,
                              max_zoom |-> max_zoom.val,
                              zoom_offset |-> flags.tile_zoom_offset],
                             flags.overflow_checks, outcome)))
    ELSE IF IsSome(interactive.svg_path)
    THEN Parsed(FromSource("svg",
             process_svg_map(flags.force, file, interactive.svg_path.val,
                             outcome)))
    ELSE Err("MissingMapSource")

\* The build convert_group makes for the variant found: Err of the zoom
\* that is missing or of the missing source, or Parsed of the build's result.
GroupBuild(interactive, file, flags, outcome) ==
    IF IsSome(interactive.svg_path)
    THEN Parsed(FromSource("svg",
             process_svg_map(flags.force, file, interactive.svg_path.val,
                             outcome)))
    ELSE IF IsSome(interactive.tile_path)
    THEN LET min_zoom == RequireZoom(interactive.min_zoom, "MissingMinZoom")
             max_zoom == RequireZoom(interactive.max_zoom, "MissingMaxZoom")
             tile_size == IF IsSome(interactive.tile_size)
                          THEN interactive.tile_size.val ELSE 256
         IN  IF ~min_zoom.ok THEN min_zoom
             ELSE IF ~max_zoom.ok THEN max_zoom
             ELSE Parsed(FromSource("tiles",
                      process_tile_map(flags.force, file,
                             [tile_size |-> tile_size,
                              min_zoom |-> min_zoom.val,
                              max_zoom |-> max_zoom.val,
                              zoom_offset |-> flags.tile_zoom_offset],
                             flags.overflow_checks, outcome)))
    ELSE Err("MissingMapSource")

\* convert_group(fetched, map_names, ..) where file is the raster file of
\* fetched.normalized_name and outcome what the network does.
convert_group(fetched, names, file, flags, outcome) ==
    LET found == FindInteractive(fetched.maps)
    IN  IF found = 0 THEN GroupResult(Skipped, NoBuild(file))
        ELSE IF fetched.normalized_name \notin DOMAIN names
        THEN GroupResult(Failed("MissingMapName"), NoBuild(file))
        ELSE LET interactive == fetched.maps[found]
                 build == GroupBuild(interactive, file, flags, outcome)
             IN  IF ~build.ok
                 THEN GroupResult(Failed(build.error), NoBuild(file))
                 ELSE IF build.val.panic
                 THEN GroupResult(Panicked, build.val)
                 ELSE IF ~build.val.ret.ok
                 THEN GroupResult(Failed(build.val.ret.error), build.val)
                 ELSE GroupResult(
                          Converted(
                              [normalized_name |-> fetched.normalized_name,
                               name |-> names[fetched.normalized_name],
                               image_size |-> build.val.ret.image_size,
                               logical_size |->
                                   LogicalSize(interactive.bounds,
                                               build.val.ret.image_size),
                               author |-> interactive.author,
                               bounds |-> interactive.bounds]),
                          build.val)

\* ------------------------------------------------------------------------
\* fetch_maps.rs: main
\* ------------------------------------------------------------------------
\* The longest feed and the number of runs in a row.
MaxGroups == 2
MaxRuns == 2

\* A mutation of Push: the record goes in front.
PushFront(list, m) == <<m>> \o list

\* maps.push(map)
Push(list, m) == Append(list, m)

\* The file assets/maps.ron: missing, holding a list of maps, or cut short
\* by a write that failed.
NoBundle == [state |-> "missing"]
Written(list) == [state |-> "written", maps |-> list]
Torn == [state |-> "torn"]

\* A mutation of BundleOnError: the maps converted so far are flushed.
BundleFlushedOnError(file, list) == Written(list)

\* `convert_group(..).await?` returns the error from main: maps.ron is not
\* touched.
BundleOnError(file, list) == file

\* A mutation of AfterBuild: the requests of the build outlive the call.
AfterBuildDetached(builds, i) == builds

\* convert_group(..).await has returned: every task of the build was joined,
\* or dropped with the JoinSet, before the loop goes on.
AfterBuild(builds, i) == {b \in builds : b.group # i}

\* How main ended: the exit code of the process, the stage reached and the
\* FetchError returned ("none" for Ok(()), "panic" for a panic).
Exit(code, stage, error) == [code |-> code, stage |-> stage, error |-> error]

\* main up to the loop: the three GraphQL queries and maps.json.  Any of
\* them failing returns the error from main.
MainStart ==
    /\ main_pc = "start"
    /\ \E outcome \in {"ok", "error"} :
          IF outcome = "ok"
          THEN /\ main_pc' = "loop"
               /\ UNCHANGED exit
          ELSE /\ main_pc' = "exit"
               /\ exit' = Some(Exit(1, "start", "Http"))
    /\ UNCHANGED <<feed, map_names, cli, disk, bundle, maps, skipped,
                   next_group, run, first_run, disk0, bundle0,
                   source_requests, raster_writes, bundle_writes, in_flight>>
    /\ UNCHANGED <<projVars, buildVars, normVars, composeVars,
                 updaterVars>>

\* convert_group is called for the next group and its builder comes to
\* send the requests for the source (one for an SVG, the tiles' otherwise).
StartBuild ==
    /\ main_pc = "loop"
    /\ next_group <= Len(feed)
    /\ \A b \in in_flight : b.group # next_group
    /\ LET group == feed[next_group]
           r == convert_group(group, map_names,
                              disk[group.normalized_name], cli, "ok")
       IN  /\ r.build.requested
           /\ in_flight' = in_flight \cup
                  {[group |-> next_group, source |-> r.build.source]}
    /\ UNCHANGED <<feed, map_names, cli, disk, bundle, maps, skipped,
                   next_group, main_pc, exit, run, first_run, disk0, bundle0,
                   source_requests, raster_writes, bundle_writes>>
    /\ UNCHANGED <<projVars, buildVars, normVars, composeVars,
                   updaterVars>>

\* One turn of `for group in fetched_maps`: convert_group returns and the
\* match is made.
ConvertGroup ==
    /\ main_pc = "loop"
    /\ next_group <= Len(feed)
    /\ \E outcome \in {"ok", "status", "transport", "malformed"} :
          LET group == feed[next_group]
              r == convert_group(group, map_names,
                                 disk[group.normalized_name], cli, outcome)
          IN  /\ r.build.requested => \E b \in in_flight : b.group = next_group
              /\ in_flight' = AfterBuild(in_flight, next_group)
              /\ disk' = [disk EXCEPT ![group.normalized_name] = r.build.file]
              /\ source_requests' =
                     source_requests + IF r.build.requested THEN 1 ELSE 0
              /\ raster_writes' =
                     raster_writes + IF r.build.wrote THEN 1 ELSE 0
              /\ CASE r.value.kind = "map" ->
                          /\ maps' = Push(maps, r.value.map)
                          /\ next_group' = next_group + 1
                          /\ UNCHANGED <<skipped, main_pc, exit, bundle>>
                   [] r.value.kind = "skip" ->
                          /\ skipped' = skipped + 1
                          /\ next_group' = next_group + 1
                          /\ UNCHANGED <<maps, main_pc, exit, bundle>>
                   [] r.value.kind = "err" ->
                          /\ main_pc' = "exit"
                          /\ exit' = Some(Exit(1, "loop", r.value.error))
                          /\ bundle' = BundleOnError(bundle, maps)
                          /\ UNCHANGED <<maps, skipped, next_group>>
                   [] r.value.kind = "panic" ->
                          /\ main_pc' = "exit"
                          /\ exit' = Some(Exit(101, "loop", "panic"))
                          /\ bundle' = BundleOnError(bundle, maps)
                          /\ UNCHANGED <<maps, skipped, next_group>>
    /\ UNCHANGED <<feed, map_names, cli, run, first_run, disk0, bundle0,
                   bundle_writes>>
    /\ UNCHANGED <<projVars, buildVars, normVars, composeVars,
                 updaterVars>>

\* After the loop: serialize maps and write maps.ron.  std::fs::write
\* creates or truncates the file and then writes; when it fails the file
\* is as before or cut short.
WriteBundle ==
    /\ main_pc = "loop"
    /\ next_group > Len(feed)
    /\ main_pc' = "exit"
    /\ \E outcome \in {"ok", "io_error"} :
          IF outcome = "ok"
          THEN /\ bundle' = Written(maps)
               /\ bundle_writes' = bundle_writes + 1
               /\ exit' = Some(Exit(0, "end", "none"))
          ELSE /\ \/ bundle' = bundle
                  \/ bundle' = Torn
               /\ UNCHANGED bundle_writes
               /\ exit' = Some(Exit(1, "write", "Io"))
    /\ UNCHANGED <<feed, map_names, cli, disk, maps, skipped, next_group,
                   run, first_run, disk0, bundle0, source_requests,
                   raster_writes, in_flight>>
    /\ UNCHANGED <<projVars, buildVars, normVars, composeVars,
                 updaterVars>>

\* fetch_maps is run again on the same remote data with the same flags,
\* after a run that exited with 0.
RunAgain ==
    /\ main_pc = "exit"
    /\ exit.val.code = 0
    /\ run < MaxRuns
    /\ run' = run + 1
    /\ first_run' = Some([maps |-> maps, disk0 |-> disk0])
    /\ maps' = <<>>
    /\ skipped' = 0
    /\ next_group' = 1
    /\ main_pc' = "start"
    /\ exit' = None
    /\ disk0' = disk
    /\ bundle0' = bundle
    /\ source_requests' = 0
    /\ raster_writes' = 0
    /\ bundle_writes' = 0
    /\ UNCHANGED <<feed, map_names, cli, disk, bundle, in_flight>>
    /\ UNCHANGED <<projVars, buildVars, normVars, composeVars,
                 updaterVars>>

\* ------------------------------------------------------------------------
\* Inputs of main
\* ------------------------------------------------------------------------
Variant(projection, author, svg_path, tile_path, min_zoom, max_zoom, tile_size, bounds) ==
    [projection |-> projection, author |-> author, svg_path |-> svg_path,
     tile_path |-> tile_path, min_zoom |-> min_zoom, max_zoom |-> max_zoom,
     tile_size |-> tile_size, bounds |-> bounds]

\* An svg_path is written as the size of the document the URL serves, in
\* quarter pixels: 100 x 50 and 100.25 x 50.
SomeBounds == Some(<<<<100, -50>>, <<-100, 50>>>>)
VOther == Variant("equirectangular", "o", Some(<<400, 200>>), None, None,
                  None, None, SomeBounds)
VSvg == Variant("interactive", "s", Some(<<400, 200>>), None, None, None,
                None, SomeBounds)
VSvgFrac == Variant("interactive", "f", Some(<<401, 200>>), None, None, None,
                    None, None)
VTile == Variant("interactive", "t", None, Some("{z}/{x}/{y}"), Some(0),
                 Some(4), None, None)
VNoMin == Variant("interactive", "i", None, Some("{z}/{x}/{y}"), None,
                  Some(4), Some(256), None)
VNoMax == Variant("interactive", "x", None, Some("{z}/{x}/{y}"), Some(0),
                  None, Some(256), None)
VBoth == Variant("interactive", "b", Some(<<400, 200>>), Some("{z}/{x}/{y}"),
                 None, None, None, None)
VNoSource == Variant("interactive", "n", None, None, None, None, None, None)

Group(normalized_name, variants) ==
    [normalized_name |-> normalized_name, maps |-> variants]

Groups ==
    {Group("a", <<>>), Group("a", <<VOther>>), Group("a", <<VOther, VSvg>>),
     Group("a", <<VSvg, VTile>>), Group("a", <<VSvgFrac>>),
     Group("a", <<VTile>>), Group("a", <<VNoMin>>), Group("a", <<VNoMax>>),
     Group("a", <<VNoSource>>), Group("a", <<VBoth>>),
     Group("b", <<VOther>>),
     Group("b", <<VNoSource>>)}

\* The display names fetch_map_names returned: none for "b".
NameTable == [n \in {"a"} |-> "A"]

MainZoomOffsets == {2, MinI32}
Clis == [force : BOOLEAN, tile_zoom_offset : MainZoomOffsets,
         overflow_checks : BOOLEAN]

\* The raster files at the start: none, or one of "a" from an earlier run.
Disks == {[n \in {"a", "b"} |-> None],
          [n \in {"a", "b"} |-> IF n = "a" THEN Some(<<800, 400>>) ELSE None]}

Bundles == {NoBundle, Written(<<>>)}

MainInit ==
    /\ \E n \in 0..MaxGroups : feed \in [1..n -> Groups]
    /\ map_names = NameTable
    /\ cli \in Clis
    /\ disk \in Disks
    /\ bundle \in Bundles
    /\ maps = <<>>
    /\ skipped = 0
    /\ next_group = 1
    /\ main_pc = "start"
    /\ exit = None
    /\ run = 1
    /\ first_run = None
    /\ disk0 = disk
    /\ bundle0 = bundle
    /\ source_requests = 0
    /\ raster_writes = 0
    /\ bundle_writes = 0
    /\ in_flight = {}

MainIdle ==
    /\ feed = <<>>
    /\ map_names = NameTable
    /\ cli = None
    /\ disk = None
    /\ bundle = NoBundle
    /\ maps = <<>>
    /\ skipped = 0
    /\ next_group = 1
    /\ main_pc = "idle"
    /\ exit = None
    /\ run = 1
    /\ first_run = None
    /\ disk0 = None
    /\ bundle0 = NoBundle
    /\ source_requests = 0
    /\ raster_writes = 0
    /\ bundle_writes = 0
    /\ in_flight = {}

\* ------------------------------------------------------------------------
\* Inputs of the asset build
\* ------------------------------------------------------------------------
TileSizes == {256}
MinZooms == {0}
MaxZooms == {1, 4}
ZoomOffsets == {MinI32, -28, 1, 3}
\* SVG source sizes, in quarter pixels: 100 x 50, 100.25 x 50, 0.25 x 0.25
SvgSizes == {<<400, 200>>, <<401, 200>>, <<1, 1>>}
Rasters == {None, Some(<<800, 400>>)}

TileArgs == [kind : {"tile"}, force : BOOLEAN, tile_size : TileSizes,
             min_zoom : MinZooms, max_zoom : MaxZooms,
             zoom_offset : ZoomOffsets]
SvgArgs == [kind : {"svg"}, force : BOOLEAN, svg_size : SvgSizes]

BuildInit ==
    /\ args \in TileArgs \cup SvgArgs
    /\ overflow_checks \in BOOLEAN
    /\ raster \in Rasters
    /\ raster0 = raster
    /\ writes = 0
    /\ requests = 0
    /\ pc = "start"
    /\ locals = None
    /\ tasks = NoTasks
    /\ permits = 0
    /\ tiles = 0
    /\ ret = None
    /\ failed_responses = 0

BuildIdle ==
    /\ args = None
    /\ overflow_checks = FALSE
    /\ raster = None
    /\ raster0 = None
    /\ writes = 0
    /\ requests = 0
    /\ pc = "idle"
    /\ locals = None
    /\ tasks = NoTasks
    /\ permits = 0
    /\ tiles = 0
    /\ ret = None
    /\ failed_responses = 0

Next ==
    \/ TileStart
    \/ TaskAcquireAndSend
    \/ TaskRespond
    \/ JoinOk
    \/ JoinErr
    \/ ComposeAndSave
    \/ SvgStart
    \/ SvgRespond

Init ==
    BuildInit /\ ProjIdle /\ NormIdle /\ MainIdle /\ ComposeIdle /\ UpdaterIdle

Spec == Init /\ [][Next]_vars

NextProject == Project

InitProject ==
    ProjInit /\ BuildIdle /\ NormIdle /\ MainIdle /\ ComposeIdle /\ UpdaterIdle

SpecProject == InitProject /\ [][NextProject]_vars

NextNormalize ==
    \/ DeserializeLabelRotation
    \/ DeserializeCoordinateRotation
    \/ FetchMapSpawns
    \/ ConvertExtentBound

InitNormalize ==
    NormInit /\ BuildIdle /\ ProjIdle /\ MainIdle /\ ComposeIdle /\ UpdaterIdle

SpecNormalize == InitNormalize /\ [][NextNormalize]_vars

NextMain ==
    \/ MainStart
    \/ StartBuild
    \/ ConvertGroup
    \/ WriteBundle
    \/ RunAgain

InitMain ==
    MainInit /\ BuildIdle /\ ProjIdle /\ NormIdle /\ ComposeIdle /\ UpdaterIdle

SpecMain == InitMain /\ [][NextMain]_vars

\* The tile builds that fetch, under the scheduling the code relies on: the
\* runtime polls every task that can go on, the semaphore grants a permit
\* that is free to a task that waits, and every request sent is answered.
\* No step of a build can be undone, so it is enough that some step is
\* taken whenever one can be.
NextLive ==
    \/ TileStart
    \/ TaskAcquireAndSend
    \/ TaskRespond
    \/ JoinOk
    \/ JoinErr
    \/ ComposeAndSave

LiveInit ==
    /\ BuildInit
    /\ args \in TileArgs
    /\ args.force
    /\ ~overflow_checks
    /\ IsNone(raster)

InitLive ==
    LiveInit /\ ProjIdle /\ NormIdle /\ MainIdle /\ ComposeIdle /\ UpdaterIdle

SpecLive ==
    /\ InitLive
    /\ [][NextLive]_vars
    /\ WF_vars(NextLive)

\* The viewer's frames and the updater's threads.  A frame comes as long as
\* the viewport is open: each thread ends with ctx.request_repaint().
NextUpdater ==
    \/ CheckSend
    \/ CheckExit
    \/ InstallSend
    \/ InstallExit
    \/ Click
    \/ Poll

InitUpdater ==
    UpdaterInit /\ BuildIdle /\ ProjIdle /\ NormIdle /\ MainIdle /\ ComposeIdle

SpecUpdater ==
    /\ InitUpdater
    /\ [][NextUpdater]_vars
    /\ WF_vars(Poll)

NextCompose ==
    \/ JoinTile
    \/ JoinRefused
    \/ ComposeCanvas

InitCompose ==
    ComposeInit /\ BuildIdle /\ ProjIdle /\ NormIdle /\ MainIdle /\ UpdaterIdle

SpecCompose == InitCompose /\ [][NextCompose]_vars


\* ------------------------------------------------------------------------
\* Properties of the asset build (checked under Spec)
\* ------------------------------------------------------------------------
IsTileBuild == args.kind = "tile"

\* max(min_zoom, max_zoom - zoom_offset) over the integers: a value, or
\* None when it is above every i32.
MathTargetZoom(min_zoom, max_zoom, zoom_offset) ==
    IF SubOverflows(max_zoom, zoom_offset)
    THEN IF zoom_offset < 0 THEN None ELSE Some(min_zoom)
    ELSE Some(Max(min_zoom, max_zoom - zoom_offset))

\* C6 as stated: for every min_zoom, max_zoom and zoom_offset the build
\* computes the target zoom max(min_zoom, max_zoom - zoom_offset), which is
\* never below min_zoom.
C6_TargetZoomIsMax ==
    (IsTileBuild /\ pc # "start") =>
        LET z == TargetZoom(args.min_zoom, args.max_zoom, args.zoom_offset,
                            overflow_checks)
            m == MathTargetZoom(args.min_zoom, args.max_zoom, args.zoom_offset)
        IN  /\ ~z.panic
            /\ IsSome(m)
            /\ z.val = m.val
            /\ z.val >= args.min_zoom
            /\ IsSome(locals) => locals.val.zoom = z.val

\* A tile build that has gone past the cache check.
Spawned ==
    /\ IsTileBuild
    /\ IsSome(locals)
    /\ ~CacheHit(args.force, raster0)

TasksLeft ==
    tasks.waiting + tasks.in_flight + tasks.done_ok + tasks.done_status
        + tasks.done_transport

BuiltOk == Spawned /\ pc = "returned" /\ ret.val.ok

GridAsClaimed ==
    /\ pc = "fetching" => TasksLeft + tiles = TileCount
    /\ pc = "fetching" => requests = TileCount - tasks.waiting
    /\ requests <= TileCount
    /\ BuiltOk =>
          /\ requests = TileCount
          /\ tiles = TileCount
          /\ writes = 1
          /\ raster.val = <<TilesPerAxis * args.tile_size,
                            TilesPerAxis * args.tile_size>>

ScenarioArgs ==
    /\ IsTileBuild
    /\ args.tile_size = 256
    /\ args.min_zoom = 0
    /\ args.max_zoom = 4
    /\ args.zoom_offset = 1

ScenarioAsClaimed ==
    (Spawned /\ ScenarioArgs) =>
        /\ locals.val.zoom = 3
        /\ BuiltOk => requests = 64 /\ raster.val = <<2048, 2048>>

\* C7 as stated: a non-cached tile build at target zoom z spawns and
\* requests exactly n*n tiles with n = 2^z, each once, and composes a canvas
\* of side n*tile_size; in the scenario zoom 3, 64 tiles, 2048 x 2048.
C7_GridIsTwoToTheZoom ==
    Spawned =>
        /\ locals.val.exp = locals.val.zoom
        /\ locals.val.full_size = U32(TilesPerAxis * args.tile_size)
        /\ GridAsClaimed
        /\ ScenarioAsClaimed

\* What holds of C7: the same, for the builds whose zoom is a shift amount
\* of a u32 (0..31).
C7_GridWithinWidth ==
    (Spawned /\ locals.val.zoom \in 0..31) =>
        /\ locals.val.exp = locals.val.zoom
        /\ locals.val.full_size = U32(TilesPerAxis * args.tile_size)
        /\ GridAsClaimed
        /\ ScenarioAsClaimed

C7_ScenarioReached ==
    BuiltOk /\ ScenarioArgs /\ requests = 64 /\ raster.val = <<2048, 2048>>

\* C8: in every state of a tile build at most TILE_DOWNLOAD_CONCURRENCY
\* tile requests are in flight, whatever the zoom and the number of tasks;
\* every request in flight holds one permit.
C8_InFlightBounded ==
    /\ tasks.in_flight <= TILE_DOWNLOAD_CONCURRENCY
    /\ pc = "fetching" => permits + tasks.in_flight = TILE_DOWNLOAD_CONCURRENCY

C8_Witness ==
    /\ pc = "fetching"
    /\ tasks.in_flight = TILE_DOWNLOAD_CONCURRENCY
    /\ tasks.waiting > 0
    /\ permits = 0

\* C9: once a tile request has ended with a non-2xx status or a transport
\* error, the build writes no raster file, sends no request twice, cannot
\* reach the composition, and what it returns is an error.
C9_FailedTileFailsBuild ==
    (IsTileBuild /\ failed_responses > 0) =>
        /\ writes = 0
        /\ raster = raster0
        /\ requests <= TileCount
        /\ pc \in {"fetching", "returned"}
        /\ pc = "fetching" => tasks.done_status + tasks.done_transport > 0
        /\ pc = "returned" => ~ret.val.ok

C9_Witness ==
    /\ IsTileBuild
    /\ failed_responses > 0
    /\ pc = "returned"
    /\ ret.val = Err("HttpStatus")
    /\ tiles > 0
    /\ IsSome(raster0)
    /\ raster = raster0

\* C10: when the raster file exists and force is not set, the build (tile
\* or SVG) sends no request and leaves the raster file as it was.
C10_CacheHitNoIO ==
    (pc # "idle" /\ ~args.force /\ IsSome(raster0)) =>
        /\ requests = 0
        /\ writes = 0
        /\ raster = raster0
        /\ pc \in {"start", "returned", "panicked"}
        /\ pc = "returned" => ret.val.ok

C10_Witness ==
    /\ args.kind = "svg"
    /\ ~args.force
    /\ IsSome(raster0)
    /\ pc = "returned"
    /\ ret.val = Ok(<<1600, 800>>)
    /\ raster = raster0

\* What a fresh build leaves on disk: the canvas of a tile build, the
\* rendering of an SVG build.
FreshRaster ==
    IF IsTileBuild
    THEN <<TilesPerAxis * args.tile_size, TilesPerAxis * args.tile_size>>
    ELSE <<RenderSize(args.svg_size[1]), RenderSize(args.svg_size[2])>>

\* C12: with the force flag set neither build returns through the cache
\* short-circuit: a build that has returned has sent a request for the
\* map's source, and one that returned Ok has written the raster file
\* once, replacing what was there.
C12_ForceRebuilds ==
    (pc = "returned" /\ args.force) =>
        /\ requests >= 1
        /\ ret.val.ok => /\ writes = 1
                         /\ raster = Some(FreshRaster)
        /\ ~ret.val.ok => writes = 0 /\ raster = raster0

C12_Witness ==
    /\ pc = "returned"
    /\ args.force
    /\ IsSome(raster0)
    /\ ret.val.ok
    /\ requests >= 1
    /\ writes = 1
    /\ raster # raster0

\* C13 as stated: the image_size a build returns is the pixel size of the
\* raster file on disk.
C13_ImageSizeIsRasterSize ==
    (pc = "returned" /\ ret.val.ok) =>
        ret.val.image_size = <<Quarter * raster.val[1], Quarter * raster.val[2]>>

\* C13 as the code has it: the image_size a build returns is the size of
\* the source, not of the raster: tile_size per side for a tile build,
\* the size of the SVG document for a fresh SVG build, and the raster's
\* pixel size divided by the render scale for an SVG build on a cache hit.
C13_ImageSizeIsSourceSize ==
    (pc = "returned" /\ ret.val.ok) =>
        LET size == ret.val.image_size
        IN  IF IsTileBuild
            THEN size = <<Quarter * args.tile_size, Quarter * args.tile_size>>
            ELSE IF ~args.force /\ IsSome(raster0)
            THEN /\ raster = raster0
                 /\ size[1] * SVG_RENDER_SCALE = Quarter * raster.val[1]
                 /\ size[2] * SVG_RENDER_SCALE = Quarter * raster.val[2]
            ELSE /\ size = args.svg_size
                 /\ raster = Some(FreshRaster)

C13_Witness ==
    /\ pc = "returned"
    /\ ret.val.ok
    /\ IsTileBuild
    /\ requests = 64
    /\ raster = Some(<<2048, 2048>>)
    /\ ret.val.image_size = <<Quarter * 256, Quarter * 256>>

\* The one-step form of a build used by convert_group agrees with the
\* build taken step by step: what a build returned, left on disk, requested
\* and wrote is what process_svg_map / process_tile_map give for one of
\* the network outcomes, and a build panics exactly when they say so.
BuildSummary(outcome) ==
    IF IsTileBuild
    THEN process_tile_map(args.force, raster0, args, overflow_checks, outcome)
    ELSE process_svg_map(args.force, raster0, args.svg_size, outcome)

BuildSummaryAgrees ==
    /\ pc = "returned" =>
          \E outcome \in {"ok", "status", "transport", "malformed"} :
              LET s == BuildSummary(outcome)
              IN  /\ ~s.panic
                  /\ s.ret = ret.val
                  /\ s.file = raster
                  /\ s.requested = (requests > 0)
                  /\ s.wrote = (writes > 0)
    /\ pc = "panicked" => BuildSummary("ok").panic
    /\ pc \in {"fetching", "svg_sent"} => ~BuildSummary("ok").panic

\* ------------------------------------------------------------------------
\* Properties of game_to_display (checked under SpecProject)
\* ------------------------------------------------------------------------
\* bounds = [[maxX, minY], [minX, maxY]] with a non-empty interior.
WellFormed(bounds) ==
    /\ bounds[2][1] < bounds[1][1]
    /\ bounds[1][2] < bounds[2][2]

StrictlyInside(bounds, pos) ==
    /\ bounds[2][1] < pos[1] /\ pos[1] < bounds[1][1]
    /\ bounds[1][2] < pos[2] /\ pos[2] < bounds[2][2]

\* min <= n/d <= max
QBetween(q, lo, hi) ==
    IsFinite(q) /\ lo * q[2] <= q[1] /\ q[1] <= hi * q[2]

InsideRect(rect, p) ==
    /\ QBetween(p[1], rect.min[1], rect.max[1])
    /\ QBetween(p[2], rect.min[2], rect.max[2])

TakesTransformPath(m) == Rotation(m) = 270 /\ IsSome(m.transform)

ProjectedInside ==
    IsSome(display) /\ InsideRect(map_rect, display.val)

InsideCase ==
    /\ proj_pc = "done"
    /\ IsSome(map.bounds)
    /\ WellFormed(map.bounds.val)
    /\ Rotation(map) \in Rotations
    /\ StrictlyInside(map.bounds.val, game_pos)

\* C1 as stated: for every map with well-formed bounds and a rotation in
\* {0, 90, 180, 270}, whatever its transform, a game point strictly inside
\* bounds is projected to Some(p) with p inside the display rectangle.
C1_AnyTransformInside == InsideCase => ProjectedInside

\* C1 as amended: the same, for the maps that take the general projection
\* path (transform absent, or a rotation other than 270); on the transform
\* path the result is decided by transform and image_size, not by bounds.
C1_GeneralPathInside ==
    (InsideCase /\ ~TakesTransformPath(map)) => ProjectedInside

C1_Witness ==
    /\ InsideCase
    /\ Rotation(map) = 90
    /\ IsSome(map.transform)
    /\ map_rect.min = <<10, 20>>
    /\ game_pos = <<50, -25>>
    /\ ProjectedInside

\* C2: game_to_display returns None whenever bounds is absent, for every
\* rotation, transform, image size, display rectangle and game point.
C2_NoBoundsNone ==
    (proj_pc = "done" /\ IsNone(map.bounds)) => IsNone(display)

C2_Witness ==
    /\ proj_pc = "done"
    /\ IsNone(map.bounds)
    /\ Rotation(map) = 270
    /\ IsSome(map.transform)
    /\ IsNone(display)

CornerSet(bounds) == {BoundsCorners(bounds)[i] : i \in 1..4}

RectCornerSet(rect) ==
    {Some(<<QInt(x), QInt(y)>>) : x \in {rect.min[1], rect.max[1]},
                                  y \in {rect.min[2], rect.max[2]}}

\* C3: on the general path, with well-formed bounds, the images of the four
\* corners of bounds are exactly the four corners of the display rectangle,
\* and a call on a corner returns a corner.
C3_CornersToCorners ==
    (/\ IsSome(map.bounds)
     /\ WellFormed(map.bounds.val)
     /\ ~TakesTransformPath(map))
    => /\ {game_to_display(map, map_rect, c) : c \in CornerSet(map.bounds.val)}
            = RectCornerSet(map_rect)
       /\ (proj_pc = "done" /\ game_pos \in CornerSet(map.bounds.val))
            => display \in RectCornerSet(map_rect)

C3_Witness ==
    /\ proj_pc = "done"
    /\ map.bounds = Some(<< <<100, -50>>, <<-100, 50>> >>)
    /\ map.coordinate_rotation = Some(90)
    /\ map_rect.min = <<10, 20>>
    /\ game_pos = <<100, -50>>
    /\ display = Some(<<QInt(110), QInt(20)>>)

\* The concrete scenario of the spec: bounds [[100,-50],[-100,50]],
\* coordinate_rotation 0, display rectangle (0,0)-(200,200).
Scenario(pos) ==
    /\ proj_pc = "done"
    /\ map.bounds = Some(<< <<100, -50>>, <<-100, 50>> >>)
    /\ map.coordinate_rotation = Some(0)
    /\ map_rect = [min |-> <<0, 0>>, max |-> <<200, 200>>]
    /\ game_pos = pos

\* C4: in the scenario, game point (0,0) is projected to (100,100).
C4_CentreScenario ==
    Scenario(<<0, 0>>) => display = Some(<<QInt(100), QInt(100)>>)

C4_Witness ==
    Scenario(<<0, 0>>) /\ IsNone(map.transform) /\ IsSome(display)

\* C5 as stated: in the scenario, game point (100,-50), the bounds[0]
\* corner, is projected to (0,0), the top-left corner.
C5_CornerTopLeft ==
    Scenario(<<100, -50>>) => display = Some(<<QInt(0), QInt(0)>>)

\* C5 as amended: in the scenario, game point (100,-50) is projected to
\* (200,200), the bottom-right corner (x = maxX is the right edge, and with
\* Y inverted y = minY is the bottom edge).
C5_CornerBottomRight ==
    Scenario(<<100, -50>>) => display = Some(<<QInt(200), QInt(200)>>)

C5_Witness ==
    Scenario(<<100, -50>>) /\ IsSome(map.transform) /\ IsSome(display)

\* ------------------------------------------------------------------------
\* Properties of the normalisers (checked under SpecNormalize)
\* ------------------------------------------------------------------------
Normalized(fn) == norm_pc = "done" /\ raw.fn = fn

SeqRange(s) == {s[i] : i \in 1..Len(s)}

Qualifies(entry) ==
    /\ SeqRange(entry.sides) \cap {"pmc", "all"} # {}
    /\ "player" \in SeqRange(entry.categories)

\* C18: the spawn list of a map holds exactly the raw entries whose sides
\* contain "pmc" or "all" and whose categories contain "player", unchanged
\* and in their original order; an entry with sides ["scav"] and categories
\* ["player"] is left out and one with sides ["all"] and categories
\* ["player"] is kept.
C18_SpawnsFiltered ==
    Normalized("spawns") =>
        LET entries == raw.spawns
        IN  /\ \A j \in 1..Len(norm) :
                  /\ norm[j].position \in 1..Len(entries)
                  /\ norm[j] = entries[norm[j].position]
                  /\ Qualifies(norm[j])
            /\ \A j \in 1..(Len(norm) - 1) :
                  norm[j].position < norm[j + 1].position
            /\ \A i \in 1..Len(entries) :
                  Qualifies(entries[i]) =>
                      \E j \in 1..Len(norm) : norm[j].position = i
            /\ \A i \in 1..Len(entries) :
                  /\ (entries[i].sides = <<"scav">>
                        /\ entries[i].categories = <<"player">>) =>
                         \A j \in 1..Len(norm) : norm[j].position # i
                  /\ (entries[i].sides = <<"all">>
                        /\ entries[i].categories = <<"player">>) =>
                         \E j \in 1..Len(norm) : norm[j].position = i

C18_Witness ==
    /\ Normalized("spawns")
    /\ Len(raw.spawns) = 3
    /\ raw.spawns[1].sides = <<"all">>
    /\ raw.spawns[1].categories = <<"player">>
    /\ raw.spawns[2].sides = <<"scav">>
    /\ raw.spawns[2].categories = <<"player">>
    /\ raw.spawns[3].sides = <<"scav", "pmc">>
    /\ raw.spawns[3].categories = <<"bot", "player">>
    /\ Len(norm) = 2
    /\ norm[1].position = 1
    /\ norm[2].position = 3

\* A string with a character that no number has, or with no digit.
NonNumeric(s) ==
    \/ \E i \in 1..Len(s) : s[i] \notin Digits \cup {"-", "."}
    \/ \A i \in 1..Len(s) : s[i] \notin Digits

IsRotationField == Normalized("label_rotation") \/ Normalized("coordinate_rotation")

RotationAsClaimed ==
    LET field == raw.val
    IN  /\ field.t = "number" => norm = Parsed(Some(as_f64(field.text)))
        /\ (field.t = "string" /\ IsJsonNumber(field.s)) =>
               norm = Parsed(Some(as_f64(field.s)))
        /\ (field.t = "string" /\ NonNumeric(field.s)) => ~norm.ok
        /\ field.t \in {"bool", "array"} => ~norm.ok

\* C19 as stated: the coordinate rotation of a map and the rotation of a
\* label each accept a number and a numeric string, the two encodings of
\* one value give the same number, and another shape or a non-numeric
\* string is an error.
C19_RotationFieldsAccepted == IsRotationField => RotationAsClaimed

\* What holds of C19: the rotation of a label accepts a number and every
\* string that str::parse::<f64> accepts, a JSON number and the string of
\* the same text give the same value, and everything else but null is an
\* error; the coordinate rotation of a map accepts null and numbers only.
C19_AsDeserialized ==
    /\ Normalized("label_rotation") =>
          LET field == raw.val
          IN  /\ field.t = "number" => norm = Parsed(Some(as_f64(field.text)))
              /\ (field.t = "string" /\ IsJsonNumber(field.s)) =>
                     norm = Parsed(Some(as_f64(field.s)))
              /\ field.t = "string" => (norm.ok <=> IsSome(ParseF64(field.s)))
              /\ field.t \in {"bool", "array"} => ~norm.ok
              /\ field.t \in {"null", "absent"} => norm = Parsed(None)
    /\ Normalized("coordinate_rotation") =>
          LET field == raw.val
          IN  /\ field.t = "number" => norm = Parsed(Some(as_f64(field.text)))
              /\ field.t \in {"string", "bool", "array"} => ~norm.ok
              /\ field.t \in {"null", "absent"} => norm = Parsed(None)

\* The element i of an array when it is there and has the type t.
Typed(arr, i, t) == i <= Len(arr) /\ arr[i].t = t

CoordinateAsClaimed(values, p, c) ==
    IF Typed(values, p, "array") /\ Typed(values[p].a, c, "number")
    THEN as_f64(values[p].a[c].text)
    ELSE F64(0, 0)

\* C20: the conversion of a bound-area array always yields a bound: each
\* coordinate and the name that is present with the right type is kept,
\* and each one that is missing or of another type is 0.0, or the empty
\* string for the name.
C20_BoundDefaults ==
    Normalized("extent_bound") =>
        LET values == raw.values
        IN  /\ norm.point1 = <<CoordinateAsClaimed(values, 1, 1),
                               CoordinateAsClaimed(values, 1, 2)>>
            /\ norm.point2 = <<CoordinateAsClaimed(values, 2, 1),
                               CoordinateAsClaimed(values, 2, 2)>>
            /\ Typed(values, 3, "string") => norm.name = values[3].s
            /\ ~Typed(values, 3, "string") => norm.name = <<>>

C20_Witness ==
    /\ Normalized("extent_bound")
    /\ raw.values = <<JArray(<<JNumber(<<"5">>)>>), JString(<<"a">>)>>
    /\ norm = [point1 |-> <<F64(5, 0), F64(0, 0)>>,
               point2 |-> <<F64(0, 0), F64(0, 0)>>,
               name |-> <<>>]

\* ------------------------------------------------------------------------
\* Properties of convert_group and main (checked under SpecMain)
\* ------------------------------------------------------------------------
HasInteractive(group) ==
    \E i \in 1..Len(group.maps) : group.maps[i].projection = "interactive"

\* The interactive variant of a group that comes first in source order.
FirstInteractive(group) ==
    LET at == {i \in 1..Len(group.maps) :
                  group.maps[i].projection = "interactive"}
    IN  group.maps[CHOOSE i \in at : \A j \in at : i <= j]

\* The groups the loop has been through, and those of them with an
\* interactive variant, in source order.
Processed == SubSeq(feed, 1, next_group - 1)
InteractiveOf(groups) == SelectSeq(groups, HasInteractive)

InLoop == main_pc = "loop" /\ next_group <= Len(feed)

Exited(stage) == main_pc = "exit" /\ exit.val.stage = stage

\* The records are those of the first interactive variants, one per group.
RecordsOf(list, groups) ==
    /\ Len(list) = Len(groups)
    /\ \A j \in 1..Len(groups) :
          /\ list[j].normalized_name = groups[j].normalized_name
          /\ list[j].author = FirstInteractive(groups[j]).author
          /\ list[j].bounds = FirstInteractive(groups[j]).bounds

SkipStep ==
    (InLoop /\ ~HasInteractive(feed[next_group])) =>
        /\ skipped' = skipped + 1
        /\ next_group' = next_group + 1
        /\ main_pc' = "loop"
        /\ UNCHANGED <<maps, disk, bundle, exit, source_requests,
                       raster_writes, bundle_writes>>

SkipsAndSelection ==
    main_pc \in {"loop", "exit"} =>
        /\ RecordsOf(maps, InteractiveOf(Processed))
        /\ skipped = Len(Processed) - Len(InteractiveOf(Processed))
        /\ Exited("loop") => HasInteractive(feed[next_group])

\* C14: a group with no interactive variant is skipped in one step of the
\* loop with no request, no file written and no record, counted in skipped,
\* and the run goes on (a run never fails at such a group); the records
\* made come each from the first interactive variant of its group, never
\* from another variant.
C14_SkipNonInteractive == [][SkipStep]_vars /\ []SkipsAndSelection

C14_Witness ==
    /\ Exited("end")
    /\ exit.val.code = 0
    /\ Len(feed) = 2
    /\ feed[1].maps = <<VOther>>
    /\ feed[2].maps = <<VOther, VSvg>>
    /\ skipped = 1
    /\ Len(maps) = 1
    /\ maps[1].author = "s"

\* The hard errors the claim names that apply to the group taken next.
MissingOf(group) ==
    LET v == FirstInteractive(group)
        tile_sourced == IsNone(v.svg_path) /\ IsSome(v.tile_path)
    IN  {e \in {"MissingMapName", "MissingMapSource", "MissingMinZoom",
                "MissingMaxZoom"} :
            \/ e = "MissingMapName"
                 /\ group.normalized_name \notin DOMAIN map_names
            \/ e = "MissingMapSource"
                 /\ IsNone(v.svg_path) /\ IsNone(v.tile_path)
            \/ e = "MissingMinZoom" /\ tile_sourced /\ IsNone(v.min_zoom)
            \/ e = "MissingMaxZoom" /\ tile_sourced /\ IsNone(v.max_zoom)}

HardErrorStep ==
    (InLoop /\ HasInteractive(feed[next_group])
            /\ MissingOf(feed[next_group]) # {}) =>
        /\ main_pc' = "exit"
        /\ exit'.val.code = 1
        /\ exit'.val.stage = "loop"
        /\ exit'.val.error \in MissingOf(feed[next_group])
        /\ UNCHANGED <<maps, skipped, next_group, disk, source_requests,
                       raster_writes>>

\* C15: for a group with an interactive variant, a normalized_name with no
\* display name, a variant with neither source, and a tile-sourced variant
\* without min_zoom or max_zoom each make convert_group return the error
\* named for the case: main exits with it, and no record and no skip is
\* made of the group.
C15_HardErrors == [][HardErrorStep]_vars

C15_Witness ==
    /\ Exited("loop")
    /\ exit.val.error = "MissingMaxZoom"
    /\ feed[next_group].maps = <<VNoMax>>
    /\ next_group = 2
    /\ Len(maps) = 1

\* The bundle file was touched by this run.
BundleTouched == bundle_writes > 0 \/ bundle # bundle0

BundleAllOrNothing ==
    main_pc \in {"loop", "exit"} =>
        /\ BundleTouched =>
              /\ main_pc = "exit"
              /\ exit.val.stage \in {"end", "write"}
              /\ next_group = Len(feed) + 1
        /\ bundle_writes > 0 =>
              /\ Exited("end")
              /\ exit.val.code = 0
              /\ bundle = Written(maps)
              /\ Len(maps) + skipped = Len(feed)
        /\ (main_pc = "exit" /\ exit.val.stage \in {"start", "loop"}) =>
              /\ exit.val.code # 0
              /\ bundle = bundle0
              /\ bundle_writes = 0
        /\ Exited("loop") => next_group <= Len(feed)

StopsAtFailedGroup ==
    main_pc = "exit" /\ exit.val.code # 0 => UNCHANGED mainVars

\* C16: the bundle is written once, after every group has been converted
\* or skipped, and holds the whole list; a run that fails before or in the
\* loop exits non-zero at the failing group, converts no later group and
\* leaves the bundle file as it was before the run.
C16_BundleAllOrNothing == []BundleAllOrNothing /\ [][StopsAtFailedGroup]_vars

C16_Witness ==
    /\ Exited("loop")
    /\ exit.val.code = 1
    /\ next_group = 2
    /\ Len(maps) = 1
    /\ raster_writes > 0
    /\ bundle = Written(<<>>)
    /\ bundle0 = Written(<<>>)

\* C17: a run that exits zero has persisted one record per group with an
\* interactive variant, in the order of the groups in the source, and the
\* records and the skipped groups together number the groups.
C17_OneRecordPerGroupInOrder ==
    (main_pc = "exit" /\ exit.val.code = 0) =>
        /\ bundle = Written(maps)
        /\ RecordsOf(bundle.maps, InteractiveOf(feed))
        /\ Len(bundle.maps) + skipped = Len(feed)

C17_Witness ==
    /\ main_pc = "exit"
    /\ exit.val.code = 0
    /\ Len(feed) = 2
    /\ bundle.state = "written"
    /\ Len(bundle.maps) = 2
    /\ bundle.maps[1].author = "s"
    /\ bundle.maps[2].author = "t"
    /\ skipped = 0

\* The second of two runs in a row has ended well, neither forced, the first
\* having started with no raster on disk.
SecondRunDone ==
    /\ main_pc = "exit"
    /\ exit.val.code = 0
    /\ run > 1
    /\ ~cli.force
    /\ \A n \in DOMAIN first_run.val.disk0 : IsNone(first_run.val.disk0[n])

SameSizes(m1, m2) ==
    m1.image_size = m2.image_size /\ m1.logical_size = m2.logical_size

\* The size is a whole number of raster pixels in both dimensions once
\* scaled by SVG_RENDER_SCALE: the raster keeps all of it.
WholeWhenRendered(image_size) ==
    \A d \in 1..2 : (image_size[d] * SVG_RENDER_SCALE) % Quarter = 0

\* C11: the second of two unforced runs on the same remote data, the first
\* starting with no cached raster, records for every map the image_size and
\* the logical_size that the first run recorded.
C11_SecondRunSameSizes ==
    SecondRunDone =>
        /\ Len(maps) = Len(first_run.val.maps)
        /\ \A i \in 1..Len(maps) : SameSizes(maps[i], first_run.val.maps[i])

\* What holds of the two runs: the sizes agree for every map whose size in
\* the first run was a whole number of rendered pixels.
SecondRunSameWholeSizes ==
    SecondRunDone =>
        /\ Len(maps) = Len(first_run.val.maps)
        /\ \A i \in 1..Len(maps) :
              WholeWhenRendered(first_run.val.maps[i].image_size) =>
                  SameSizes(maps[i], first_run.val.maps[i])

\* A second run over an SVG map 100.25 wide has ended.
SecondRunFractional ==
    /\ SecondRunDone
    /\ Len(feed) = 1
    /\ feed[1].maps = <<VSvgFrac>>
    /\ first_run.val.maps[1].image_size = <<401, 200>>
    /\ maps[1].image_size = <<400, 200>>

\* The distance of two coordinates.
Distance(a, b) == IF a >= b THEN a - b ELSE b - a

LogicalSizeAsClaimed(m) ==
    IF IsSome(m.bounds)
    THEN LET b == m.bounds.val
         IN  m.logical_size = <<Quarter * Distance(b[1][1], b[2][1]),
                                Quarter * Distance(b[2][2], b[1][2])>>
    ELSE m.logical_size = m.image_size

\* C21: in every record made, logical_size is [|bounds[0][0] - bounds[1][0]|,
\* |bounds[1][1] - bounds[0][1]|] when the record has bounds, and the
\* record's image_size when it has none.
C21_LogicalSize ==
    main_pc \in {"loop", "exit"} =>
        \A i \in 1..Len(maps) : LogicalSizeAsClaimed(maps[i])

C21_Witness ==
    /\ main_pc = "exit"
    /\ exit.val.code = 0
    /\ Len(maps) = 2
    /\ IsSome(maps[1].bounds)
    /\ maps[1].logical_size = <<Quarter * 200, Quarter * 100>>
    /\ maps[1].logical_size # maps[1].image_size
    /\ IsNone(maps[2].bounds)
    /\ maps[2].logical_size = <<Quarter * 256, Quarter * 256>>

\* A step of a tile build that creates or changes the raster file.
RasterWriteStep ==
    (IsTileBuild /\ (raster' # raster \/ writes' # writes)) =>
        /\ writes = 0
        /\ writes' = 1
        /\ tiles = TileCount
        /\ requests = TileCount
        /\ TasksLeft = 0
        /\ failed_responses = 0
        /\ pc' = "returned"
        /\ ret'.val.ok

RasterUntouchedBefore ==
    IsTileBuild =>
        /\ writes <= 1
        /\ writes = 0 => raster = raster0
        /\ writes = 1 => BuiltOk /\ tiles = TileCount

\* C22: a tile build writes the raster file at most once, in the step that
\* follows the last of the n*n tile fetches, all of them successful; in
\* every state before that step the file is as it was when the build
\* started.
C22_RasterWrittenOnceAtEnd == [][RasterWriteStep]_vars /\ []RasterUntouchedBefore

C22_Witness ==
    /\ BuiltOk
    /\ writes = 1
    /\ tiles = 64
    /\ raster0 = Some(<<800, 400>>)
    /\ raster = Some(<<2048, 2048>>)

\* ------------------------------------------------------------------------
\* The two paths of game_to_display (checked under SpecProject)
\* ------------------------------------------------------------------------
AffineCase ==
    /\ IsSome(map.bounds)
    /\ map.coordinate_rotation = Some(270)
    /\ IsSome(map.transform)

\* The position the affine path is said to give: the point rotated by 270
\* degrees is (y, -x).
AffineAsClaimed ==
    LET x == game_pos[2]
        y == -game_pos[1]
        scaleX == map.transform.val[1]
        marginX == map.transform.val[2]
        scaleY == map.transform.val[3]
        marginY == map.transform.val[4]
        fx == Div(scaleX * x + marginX, map.image_size[1])
        fy == Div((-scaleY) * y + marginY, map.image_size[2])
    IN  display = Some(<<Lerp(map_rect.min[1], fx,
                              map_rect.max[1] - map_rect.min[1]),
                         Lerp(map_rect.min[2], fy,
                              map_rect.max[2] - map_rect.min[2])>>)

\* The position the general path is said to give: the rotated point within
\* the bounding box of the rotated bounds, Y inverted.
GeneralAsClaimed ==
    LET r == Rotation(map)
        p == rotate_point(game_pos[1], game_pos[2], r)
        ext == RotatedExtent(map.bounds.val, r)
        fx == Div(p[1] - ext.min_x, ext.max_x - ext.min_x)
        fy == Div(ext.max_y - p[2], ext.max_y - ext.min_y)
    IN  display = Some(<<Lerp(map_rect.min[1], fx,
                              map_rect.max[1] - map_rect.min[1]),
                         Lerp(map_rect.min[2], fy,
                              map_rect.max[2] - map_rect.min[2])>>)

\* C26: game_to_display takes the affine path exactly when bounds and
\* transform are present and the rotation is 270; there the position is
\* rect.min + ((scaleX*x' + marginX) / pixel_width * rect_width,
\* ((-scaleY)*y' + marginY) / pixel_height * rect_height), which has no
\* bounds value in it; in every other case with bounds it is the position of
\* the general path with inverted Y, which has no transform value in it.
C26_AffineExactlyAt270 ==
    (proj_pc = "done" /\ IsSome(map.bounds)) =>
        IF AffineCase THEN AffineAsClaimed ELSE GeneralAsClaimed

\* The affine path with a transform whose scales and margins all differ,
\* giving a position the general path does not give.
C26_Witness ==
    /\ proj_pc = "done"
    /\ AffineCase
    /\ map.transform = Some(<<2, 10, 3, 20>>)
    /\ game_pos = <<50, 25>>
    /\ AffineAsClaimed
    /\ ~GeneralAsClaimed

\* ------------------------------------------------------------------------
\* The 32-bit arithmetic of the grid (checked under Spec)
\* ------------------------------------------------------------------------
\* 2^z * tile_size in u32 without loss: z is a shift amount of a u32 and no
\* bit of the product falls off.
ProductExact(z, tile_size, full_size) ==
    /\ z \in 0..31
    /\ tile_size >= 0
    /\ ~MulPow2(AsU32(tile_size), z).overflow
    /\ full_size = MulPow2(AsU32(tile_size), z).val

\* C27 as stated: for every tile_size, min_zoom, max_zoom and zoom_offset
\* the build computes the grid side 2^z and the canvas side 2^z * tile_size
\* as the integers they are, z being max(min_zoom, max_zoom - zoom_offset):
\* nothing wraps, nothing panics, and no negative zoom or tile size is used.
C27_GridArithmeticExact ==
    (IsTileBuild /\ pc # "start") =>
        LET m == MathTargetZoom(args.min_zoom, args.max_zoom, args.zoom_offset)
        IN  /\ pc # "panicked"
            /\ IsSome(locals)
            /\ IsSome(m)
            /\ m.val >= 0
            /\ locals.val.zoom = m.val
            /\ locals.val.exp = m.val
            /\ ProductExact(m.val, args.tile_size, locals.val.full_size)

\* What holds: the arithmetic is exact whenever the zoom difference fits an
\* i32, the zoom is in 0..31 and the canvas side fits a u32.
GridArithmeticExactInRange ==
    (IsTileBuild /\ pc # "start") =>
        LET m == MathTargetZoom(args.min_zoom, args.max_zoom, args.zoom_offset)
        IN  (/\ IsSome(m)
             /\ m.val \in 0..31
             /\ ~MulPow2(AsU32(args.tile_size), m.val).overflow) =>
                /\ pc # "panicked"
                /\ IsSome(locals)
                /\ locals.val.zoom = m.val
                /\ locals.val.exp = m.val
                /\ ProductExact(m.val, args.tile_size, locals.val.full_size)

\* A cache hit after a product that wrapped to 0: zoom 29, tile_size 256.
WrappedCanvasSide ==
    /\ IsTileBuild
    /\ pc = "returned"
    /\ ~overflow_checks
    /\ args.max_zoom = 1
    /\ args.zoom_offset = -28
    /\ locals.val.zoom = 29
    /\ locals.val.full_size = U32(0)

\* ------------------------------------------------------------------------
\* Properties of the composition (checked under SpecCompose)
\* ------------------------------------------------------------------------
\* The pixels of the cell of tile c: the tile_size x tile_size square at
\* (x * tile_size, y * tile_size).
Cell(c) ==
    ((c[1] * grid.tile_size)..((c[1] + 1) * grid.tile_size - 1)) \X
    ((c[2] * grid.tile_size)..((c[2] + 1) * grid.tile_size - 1))

CanvasWritten == compose_pc = "returned" /\ IsSome(canvas_file)

AllJoined == \A c \in DOMAIN served : \E i \in 1..Len(joined) : joined[i] = c

\* C23 as stated: a canvas that is written has every cell filled from its
\* own decoded tile, and a tile whose bytes do not decode fails the build.
C23_NoPartialCanvas ==
    /\ CanvasWritten =>
          \A c \in DOMAIN served :
             /\ Decodes(served[c])
             /\ \A p \in Cell(c) : canvas_file.val[p] = c
    /\ (compose_pc = "returned" /\ \E c \in DOMAIN served : ~Decodes(served[c]))
          => ~compose_ret.val.ok /\ IsNone(canvas_file)

\* What holds: a written canvas has every cell filled from its own tile
\* when every tile decodes to tile_size x tile_size pixels.
FullCanvasOfExactTiles ==
    (CanvasWritten /\ \A c \in DOMAIN served : served[c] = Image(grid.tile_size))
        => \A c \in DOMAIN served :
              \A p \in Cell(c) : canvas_file.val[p] = c

\* A build that returned Ok and saved a canvas with a blank cell.
BlankCellSaved ==
    /\ CanvasWritten
    /\ compose_ret.val.ok
    /\ grid.tiles_per_axis = 2
    /\ served[<<0, 0>>] = Malformed
    /\ \A c \in DOMAIN served \ {<<0, 0>>} : served[c] = Image(grid.tile_size)
    /\ \A p \in Cell(<<0, 0>>) : canvas_file.val[p] = Blank

\* The tiles in the order their tasks were spawned: x outer, y inner.
SpawnOrder ==
    [i \in 1..(grid.tiles_per_axis * grid.tiles_per_axis) |->
        <<(i - 1) \div grid.tiles_per_axis, (i - 1) % grid.tiles_per_axis>>]

\* C24 as stated: whatever the order the downloads complete in, the raster
\* composed of the same tiles is the same (that of the spawn order), each
\* pixel copied from a tile lying in the cell of that tile.
C24_OrderIndependent ==
    CanvasWritten =>
        /\ canvas_file.val =
               ComposeTiles(NewCanvas(grid.full_size), SpawnOrder, served,
                            grid.tile_size)
        /\ \A p \in DOMAIN canvas_file.val :
               canvas_file.val[p] # Blank => p \in Cell(canvas_file.val[p])

\* What holds: the same, when no tile is wider than tile_size.
OrderIndependentWithinCells ==
    (CanvasWritten /\ \A c \in DOMAIN served : served[c].side <= grid.tile_size)
        =>
        /\ canvas_file.val =
               ComposeTiles(NewCanvas(grid.full_size), SpawnOrder, served,
                            grid.tile_size)
        /\ \A p \in DOMAIN canvas_file.val :
               canvas_file.val[p] # Blank => p \in Cell(canvas_file.val[p])

\* Two tiles 3 pixels wide in a grid of 2-pixel cells, joined against the
\* spawn order: the pixel (2, 0) of the cell of tile (1, 0) holds tile (0, 0).
OverlapDecidedByOrder ==
    /\ CanvasWritten
    /\ grid.tiles_per_axis = 2
    /\ \A c \in DOMAIN served : served[c] = Image(grid.tile_size + 1)
    /\ joined = <<<<1, 0>>, <<0, 0>>, <<0, 1>>, <<1, 1>>>>
    /\ canvas_file.val[<<2, 0>>] = <<0, 0>>

\* ------------------------------------------------------------------------
\* The order of the builds and the choice of source (checked under SpecMain)
\* ------------------------------------------------------------------------
\* Only the build of the group the loop is at has requests in flight.
OneBuildAtATime ==
    /\ Cardinality(in_flight) <= 1
    /\ \A b \in in_flight : main_pc = "loop" /\ b.group = next_group
    /\ Cardinality({b \in in_flight : b.source = "tiles"}) <= 1

\* A step touches the raster file of the group the loop is at and no other,
\* and the loop leaves a group only when its build has nothing in flight.
BuildStepOfCurrentGroup ==
    /\ disk' # disk =>
          /\ InLoop
          /\ \A n \in DOMAIN disk :
                n # feed[next_group].normalized_name => disk'[n] = disk[n]
    /\ (InLoop /\ next_group' # next_group) => in_flight' = {}

\* C25: the builds are made one after another: the build of a group has
\* returned, with none of its requests in flight, before a request or a file
\* write of the next group is made, so tile requests of two maps are never
\* in flight together.
C25_BuildsSequential == []OneBuildAtATime /\ [][BuildStepOfCurrentGroup]_vars

\* The second of two tile maps is being fetched, the first built.
C25_Witness ==
    /\ main_pc = "loop"
    /\ Len(feed) = 2
    /\ feed[1].maps = <<VSvg, VTile>>
    /\ feed[2].maps = <<VTile>>
    /\ cli.force
    /\ next_group = 2
    /\ raster_writes = 1
    /\ in_flight = {[group |-> 2, source |-> "tiles"]}

\* The group the loop is at has a name, and its interactive variant has
\* both an svg_path and a tile_path.
BothSources ==
    /\ InLoop
    /\ HasInteractive(feed[next_group])
    /\ feed[next_group].normalized_name \in DOMAIN map_names
    /\ IsSome(FirstInteractive(feed[next_group]).svg_path)
    /\ IsSome(FirstInteractive(feed[next_group]).tile_path)

SvgOnlyStep ==
    BothSources =>
        LET name == feed[next_group].normalized_name
            svg_size == FirstInteractive(feed[next_group]).svg_path.val
        IN  /\ \A b \in in_flight' : b.source = "svg"
            /\ main_pc' = "exit" =>
                   exit'.val.error \in
                       {"Http", "HttpStatus", "SvgParse", "PixmapCreation"}
            /\ next_group' # next_group =>
                   /\ Len(maps') = Len(maps) + 1
                   /\ skipped' = skipped
                   /\ \/ /\ disk'[name] = disk[name]
                         /\ IsSome(disk[name])
                         /\ ~cli.force
                         /\ source_requests' = source_requests
                      \/ /\ disk'[name] = Some(<<RenderSize(svg_size[1]),
                                                  RenderSize(svg_size[2])>>)
                         /\ maps'[Len(maps')].image_size = svg_size
                         /\ source_requests' = source_requests + 1

\* C28: for an interactive variant with both svg_path and tile_path the
\* raster is built from the SVG alone: the only request is the SVG's, the
\* file written is the rendered SVG, and a missing min_zoom or max_zoom is
\* no error.
C28_SvgWinsOverTiles ==
    [][SvgOnlyStep]_vars /\ [](BothSources => \A b \in in_flight : b.source = "svg")

C28_Witness ==
    /\ main_pc = "exit"
    /\ exit.val.code = 0
    /\ Len(feed) = 1
    /\ feed[1].maps = <<VBoth>>
    /\ IsNone(VBoth.min_zoom)
    /\ Len(maps) = 1
    /\ maps[1].author = "b"
    /\ maps[1].image_size = <<400, 200>>
    /\ disk["a"] = Some(<<200, 100>>)
    /\ source_requests = 1
    /\ raster_writes = 1

\* ------------------------------------------------------------------------
\* Termination of a tile build (checked under SpecLive)
\* ------------------------------------------------------------------------
Fetching == IsTileBuild /\ pc = "fetching"

Finished ==
    /\ pc = "returned"
    /\ \/ ret.val.ok /\ writes = 1
       \/ ~ret.val.ok /\ writes = 0

\* No permit is lost: the permits left and those held by requests in
\* flight are all there are, and a build that joined every task has them
\* all back.
PermitsAccounted ==
    /\ Fetching => permits + tasks.in_flight = TILE_DOWNLOAD_CONCURRENCY
    /\ BuiltOk => permits = TILE_DOWNLOAD_CONCURRENCY

\* C29: a tile build whose requests are all answered finishes, whatever the
\* number of tiles against the number of permits: each task gives its
\* permit back however its request ends, no task waits for ever, and the
\* build comes to write the raster or to return an error.
C29_BuildTerminates == (Fetching ~> Finished) /\ []PermitsAccounted

\* The termination alone.
FetchingEnds == Fetching ~> Finished

\* A build of 64 tiles on 32 permits has finished with one refused tile.
C29_Witness ==
    /\ IsTileBuild
    /\ pc = "returned"
    /\ TileCount = 64
    /\ requests > TILE_DOWNLOAD_CONCURRENCY
    /\ failed_responses = 1
    /\ ret.val = Err("HttpStatus")
    /\ writes = 0

\* ------------------------------------------------------------------------
\* The updater's install threads and update_in_progress
\* ------------------------------------------------------------------------
Installing(i) == i \in 1..Len(installs) /\ installs[i] = "installing"

EventsQueuedOf(i) ==
    {k \in 1..Len(event_rx) :
        event_rx[k].from = i /\ event_rx[k].kind \in TerminalKinds}

EventQueued(i) == EventsQueuedOf(i) # {}

\* The install has started and its terminal event is not polled yet.
Unpolled(i) == Installing(i) \/ EventQueued(i)

UnpolledInstalls == {i \in 1..Len(installs) : Unpolled(i)}

\* The flag stands for the one install whose event is still to be polled,
\* and an install sends one event, after its work.
FlagGuardsInstall ==
    /\ Cardinality(UnpolledInstalls) <= 1
    /\ update_in_progress <=> UnpolledInstalls # {}
    /\ \A i \in 1..Len(installs) :
          /\ Cardinality(EventsQueuedOf(i)) <= 1
          /\ Installing(i) => ~EventQueued(i)

\* A step starts at most one install, none while one is installing, and
\* leaves the flag set.
StartStep ==
    Len(installs') > Len(installs) =>
        /\ Len(installs') = Len(installs) + 1
        /\ \A i \in 1..Len(installs) : ~Installing(i)
        /\ update_in_progress'

\* The flag is set by starting an install and cleared by polling a
\* terminal event, nothing else.
FlagStep ==
    /\ (~update_in_progress /\ update_in_progress') =>
           Len(installs') > Len(installs)
    /\ (update_in_progress /\ ~update_in_progress') =>
           /\ \E i \in 1..Len(installs) : EventQueued(i)
           /\ event_rx' = <<>>

\* The terminal event of an install is polled, unless the viewport closes.
EventPolled ==
    \A i \in 1..MaxClicks : EventQueued(i) ~> (~EventQueued(i) \/ closed)

TwoInstallThreadsAlive ==
    /\ Len(installs) >= 2
    /\ installs[1] = "notifying"
    /\ Installing(2)

=============================================================================
